---- MODULE Spec2Model ----
(***************************************************************************)
(* A model of the Hyperliquid order pipeline of src/hyperliquid.ts:        *)
(* placeHyperliquidOrder and its helpers getUniverse, resolveAssetIndex,   *)
(* toApiDecimal, normalizeHex, signL1Action, splitSignature and            *)
(* createL1ActionHash.                                                     *)
(*                                                                         *)
(* JavaScript strings are sequences of one-character strings, bytes are    *)
(* integers 0..255, an optional value is a sequence of length 0 or 1.      *)
(***************************************************************************)
EXTENDS Integers, Sequences, FiniteSets, TLC

(***************************************************************************)
(* Characters and strings                                                  *)
(***************************************************************************)

\* The printable ASCII characters, code 32 first ("DQ", "BS", "LP", "RP" and "ST"
\* stand for the double quote, the backslash, the parentheses and the star,
\* which no modelled string contains).
Ascii ==
  << " ", "!", "DQ", "#", "$", "%", "&", "'", "LP", "RP", "ST", "+", ",", "-", ".", "/",
     "0", "1", "2", "3", "4", "5", "6", "7", "8", "9", ":", ";", "<", "=", ">", "?",
     "@", "A", "B", "C", "D", "E", "F", "G", "H", "I", "J", "K", "L", "M", "N", "O",
     "P", "Q", "R", "S", "T", "U", "V", "W", "X", "Y", "Z", "[", "BS", "]", "^", "_",
     "BT", "a", "b", "c", "d", "e", "f", "g", "h", "i", "j", "k", "l", "m", "n", "o",
     "p", "q", "r", "s", "t", "u", "v", "w", "x", "y", "z", "{", "|", "}", "~" >>

\* The UTF-8 code of a character (ASCII only).
CharCodes == [c \in { Ascii[k] : k \in 1..Len(Ascii) } |->
                31 + (CHOOSE k \in 1..Len(Ascii) : Ascii[k] = c)]

CharCode(c) == CharCodes[c]

\* String.prototype.toUpperCase / toLowerCase, one character.
UpperChars == [c \in DOMAIN CharCodes |->
                 IF CharCodes[c] >= 97 /\ CharCodes[c] <= 122
                 THEN Ascii[CharCodes[c] - 32 - 31] ELSE c]

LowerChars == [c \in DOMAIN CharCodes |->
                 IF CharCodes[c] >= 65 /\ CharCodes[c] <= 90
                 THEN Ascii[CharCodes[c] + 32 - 31] ELSE c]

ToUpperChar(c) == UpperChars[c]

ToLowerChar(c) == LowerChars[c]

toUpperCase(s) == [k \in 1..Len(s) |-> ToUpperChar(s[k])]

toLowerCase(s) == [k \in 1..Len(s) |-> ToLowerChar(s[k])]

\* Optional values.
None == << >>

Some(x) == << x >>

\* c repeated n times ("0".repeat(n)).
Repeat(c, n) == [k \in 1..n |-> c]

\* The index of the first occurrence of character c in s, 0 when there is none.
IndexOfChar(s, c) ==
  IF \E k \in 1..Len(s) : s[k] = c
  THEN CHOOSE k \in 1..Len(s) : s[k] = c /\ \A j \in 1..(k - 1) : s[j] # c
  ELSE 0

\* s.split(c)[0]: the part of s before the first c, all of s when there is none.
SplitHead(s, c) ==
  LET k == IndexOfChar(s, c) IN IF k = 0 THEN s ELSE SubSeq(s, 1, k - 1)

\* The rest of s after the first c (s.split(c)[1] when c occurs once), None when
\* c does not occur.
SplitTail(s, c) ==
  LET k == IndexOfChar(s, c) IN IF k = 0 THEN None ELSE Some(SubSeq(s, k + 1, Len(s)))

\* String.prototype.trim, for the space character.
RECURSIVE TrimStart(_)
TrimStart(s) == IF s # << >> /\ Head(s) = " " THEN TrimStart(Tail(s)) ELSE s

RECURSIVE TrimEnd(_)
TrimEnd(s) ==
  IF s # << >> /\ s[Len(s)] = " " THEN TrimEnd(SubSeq(s, 1, Len(s) - 1)) ELSE s

trim(s) == TrimEnd(TrimStart(s))

\* String.prototype.slice(from, to) with 0-based, clamped, non-negative bounds.
slice(s, from, to) ==
  LET lo == IF from > Len(s) THEN Len(s) ELSE from
      hi == IF to > Len(s) THEN Len(s) ELSE to
  IN IF hi <= lo THEN << >> ELSE SubSeq(s, lo + 1, hi)

\* String.prototype.padEnd(n, c).
padEnd(s, n, c) == IF Len(s) >= n THEN s ELSE s \o Repeat(c, n - Len(s))

\* The concatenation of a sequence of sequences.
RECURSIVE Flatten(_)
Flatten(ss) == IF ss = << >> THEN << >> ELSE Head(ss) \o Flatten(Tail(ss))

Digits == << "0", "1", "2", "3", "4", "5", "6", "7", "8", "9" >>

DigitVals == [c \in { Digits[k] : k \in 1..10 } |-> (CHOOSE k \in 1..10 : Digits[k] = c) - 1]

IsDigit(c) == c \in DOMAIN DigitVals

DigitVal(c) == DigitVals[c]

\* The decimal rendering of a natural number.
RECURSIVE NatToString(_)
NatToString(n) ==
  IF n < 10 THEN << Digits[n + 1] >> ELSE Append(NatToString(n \div 10), Digits[(n % 10) + 1])

\* The value of a string of decimal digits.
RECURSIVE DigitsToNat(_)
DigitsToNat(s) ==
  IF s = << >> THEN 0
  ELSE 10 * DigitsToNat(SubSeq(s, 1, Len(s) - 1)) + DigitVal(s[Len(s)])

HexDigits ==
  << "0", "1", "2", "3", "4", "5", "6", "7", "8", "9", "a", "b", "c", "d", "e", "f" >>

\* The value of a hexadecimal digit, of either case.
HexVals == [c \in { HexDigits[k] : k \in 1..16 } \cup { ToUpperChar(HexDigits[k]) : k \in 1..16 } |->
              (CHOOSE k \in 1..16 : HexDigits[k] = ToLowerChar(c)) - 1]

IsHexDigit(c) == c \in DOMAIN HexVals

HexVal(c) == HexVals[c]

(***************************************************************************)
(* resolveAssetIndex                                                       *)
(***************************************************************************)

\* Array.prototype.findIndex for the predicate of resolveAssetIndex: the 0-based
\* position of the first universe entry whose upper-cased name is the upper-cased
\* target, -1 when there is none. A universe is the sequence of its names.
\* A variant of findIndex that compares the names as written.
findIndexAsWritten(universe, target) ==
  LET Hit(k) == universe[k] = target
  IN IF \E k \in 1..Len(universe) : Hit(k)
     THEN (CHOOSE k \in 1..Len(universe) : Hit(k) /\ \A j \in 1..(k - 1) : ~Hit(j)) - 1
     ELSE -1

findIndex(universe, target) ==
  LET Hit(k) == toUpperCase(universe[k]) = toUpperCase(target)
  IN IF \E k \in 1..Len(universe) : Hit(k)
     THEN (CHOOSE k \in 1..Len(universe) : Hit(k) /\ \A j \in 1..(k - 1) : ~Hit(j)) - 1
     ELSE -1

\* resolveAssetIndex(symbol, universe): [ok, index]; ok = FALSE is the thrown
\* "Unknown Hyperliquid asset symbol" error.
resolveAssetIndex(symbol, universe) ==
  LET raw == SplitHead(symbol, "-")
      target == trim(raw)
      index == findIndex(universe, target)
  IN IF index = -1
     THEN [ok |-> FALSE, index |-> -1]
     ELSE [ok |-> TRUE, index |-> index]

(***************************************************************************)
(* toApiDecimal                                                            *)
(***************************************************************************)

\* A JavaScript number: cls is "finite", "nan" or "inf"; a finite number is
\* (-1)^neg * 0.d1...dk * 10^n with digits d1...dk, d1 and dk not "0" (zero is the
\* digits <<"0">>), as in Number::toString of ECMAScript, where k = Len(digits).
Num(neg, digits, n) == [cls |-> "finite", neg |-> neg, digits |-> digits, n |-> n]

NaN == [cls |-> "nan", neg |-> FALSE, digits |-> << "0" >>, n |-> 0]

Infinity == [cls |-> "inf", neg |-> FALSE, digits |-> << "0" >>, n |-> 0]

\* Number.isFinite.
isFinite(x) == x.cls = "finite"

\* Number.prototype.toString() of a finite number (ECMAScript Number::toString,
\* radix 10).
NumberToString(x) ==
  LET k == Len(x.digits)
      n == x.n
      s == x.digits
      e == n - 1
      sign == IF x.neg THEN << "-" >> ELSE << >>
      expo == << "e" >> \o (IF e < 0 THEN << "-" >> ELSE << "+" >>)
                \o NatToString(IF e < 0 THEN -e ELSE e)
  IN IF s = << "0" >> THEN << "0" >>
     ELSE sign \o
       (IF k <= n /\ n <= 21 THEN s \o Repeat("0", n - k)
        ELSE IF 0 < n /\ n <= 21 THEN SubSeq(s, 1, n) \o << "." >> \o SubSeq(s, n + 1, k)
        ELSE IF -6 < n /\ n <= 0 THEN << "0", "." >> \o Repeat("0", -n) \o s
        ELSE IF k = 1 THEN s \o expo
        ELSE << s[1], "." >> \o SubSeq(s, 2, k) \o expo)

\* BigInt.prototype.toString(): a bigint is [neg, digits], digits without leading
\* zeros.
BigIntToString(x) == (IF x.neg THEN << "-" >> ELSE << >>) \o x.digits

\* Number(exponentPart) for the exponent text of a number rendering: an optional
\* sign and decimal digits.
ParseExponent(s) ==
  IF s # << >> /\ s[1] = "-" THEN -DigitsToNat(Tail(s))
  ELSE IF s # << >> /\ s[1] = "+" THEN DigitsToNat(Tail(s))
  ELSE DigitsToNat(s)

\* s.replace(/\.0+$/, ""): a final "." followed by one or more "0" is removed.
StripDotZeros(s) ==
  LET Match(k) == s[k] = "." /\ k < Len(s) /\ \A j \in (k + 1)..Len(s) : s[j] = "0"
  IN IF \E k \in 1..Len(s) : Match(k)
     THEN SubSeq(s, 1, (CHOOSE k \in 1..Len(s) : Match(k)) - 1)
     ELSE s

\* The values toApiDecimal accepts: a string, a bigint or a number.
StrValue(s) == [t |-> "string", s |-> s, x |-> Num(FALSE, << "0" >>, 0)]

BigIntValue(neg, digits) == [t |-> "bigint", s |-> << >>, x |-> Num(neg, digits, 0)]

NumValue(x) == [t |-> "number", s |-> << >>, x |-> x]

\* The exponential branch of toApiDecimal, asString being the rendering.
ExpandExponent(asString) ==
  LET ePos == IF IndexOfChar(asString, "e") # 0 THEN IndexOfChar(asString, "e")
              ELSE IndexOfChar(asString, "E")
      mantissa == SubSeq(asString, 1, ePos - 1)
      exponentPart == SubSeq(asString, ePos + 1, Len(asString))
      exponent == ParseExponent(exponentPart)
      integerPart == SplitHead(mantissa, ".")
      tail == SplitTail(mantissa, ".")
      fractionalPart == IF tail = None THEN << >> ELSE tail[1]
      zeros == Repeat("0", (IF exponent < 0 THEN -exponent ELSE exponent) - 1)
  IN IF exponent >= 0
     THEN integerPart \o padEnd(fractionalPart, exponent + Len(fractionalPart), "0")
     ELSE StripDotZeros(<< "0", "." >> \o zeros \o integerPart \o fractionalPart)

\* toApiDecimal(value): [ok, s]; ok = FALSE is the thrown "Numeric values must be
\* finite." error.
toApiDecimal(value) ==
  IF value.t = "string" THEN [ok |-> TRUE, s |-> value.s]
  ELSE IF value.t = "bigint" THEN [ok |-> TRUE, s |-> BigIntToString(value.x)]
  ELSE IF ~isFinite(value.x) THEN [ok |-> FALSE, s |-> << >>]
  ELSE LET asString == NumberToString(value.x)
       IN IF IndexOfChar(asString, "e") # 0 \/ IndexOfChar(asString, "E") # 0
          THEN [ok |-> TRUE, s |-> ExpandExponent(asString)]
          ELSE [ok |-> TRUE, s |-> asString]

(***************************************************************************)
(* normalizeHex, normalizeAddress                                          *)
(***************************************************************************)

\* lower.replace(/^0x0+/, "0x"): the zeros that follow a leading "0x" are removed.
RECURSIVE StripZeros(_)
StripZeros(s) == IF s # << >> /\ Head(s) = "0" THEN StripZeros(Tail(s)) ELSE s

normalizeHex(value) ==
  LET lower == toLowerCase(value)
      replaced == IF Len(lower) >= 3 /\ SubSeq(lower, 1, 3) = << "0", "x", "0" >>
                  THEN << "0", "x" >> \o StripZeros(SubSeq(lower, 3, Len(lower)))
                  ELSE lower
  IN IF replaced = << >> THEN << "0", "x", "0" >> ELSE replaced

normalizeAddress(value) == normalizeHex(value)

(***************************************************************************)
(* splitSignature                                                          *)
(***************************************************************************)

\* The value of the longest prefix of hexadecimal digits of s, acc being the
\* value read so far.
RECURSIVE HexPrefixValue(_, _)
HexPrefixValue(s, acc) ==
  IF s # << >> /\ IsHexDigit(Head(s))
  THEN HexPrefixValue(Tail(s), 16 * acc + HexVal(Head(s)))
  ELSE acc

\* parseInt(s, 16): leading spaces and a sign are skipped, then a "0x" prefix;
\* [nan, v], nan when no hexadecimal digit follows.
parseInt16(s) ==
  LET t == TrimStart(s)
      neg == t # << >> /\ t[1] = "-"
      u == IF t # << >> /\ (t[1] = "-" \/ t[1] = "+") THEN Tail(t) ELSE t
      w == IF Len(u) >= 2 /\ u[1] = "0" /\ ToLowerChar(u[2]) = "x"
           THEN SubSeq(u, 3, Len(u)) ELSE u
  IN IF w = << >> \/ ~IsHexDigit(w[1])
     THEN [nan |-> TRUE, v |-> 0]
     ELSE [nan |-> FALSE, v |-> IF neg THEN -HexPrefixValue(w, 0) ELSE HexPrefixValue(w, 0)]

\* The recovery value of splitSignature from the parsed byte v.
\* A variant of normalizedV without the mapping by parity.
normalizedVWithoutParity(v) == IF v < 27 THEN v + 27 ELSE v

normalizedV(v) ==
  LET w == IF v < 27 THEN v + 27 ELSE v
  IN IF w = 27 \/ w = 28 THEN w ELSE (IF w % 2 # 0 THEN 27 ELSE 28)

\* splitSignature(signature): [ok, r, s, v]; ok = FALSE is the thrown "Invalid
\* signature returned by wallet client." error.
splitSignature(signature) ==
  LET cleaned == slice(signature, 2, Len(signature))
      rHex == << "0", "x" >> \o slice(cleaned, 0, 64)
      sHex == << "0", "x" >> \o slice(cleaned, 64, 128)
      parsed == parseInt16(slice(cleaned, 128, 130))
  IN IF parsed.nan
     THEN [ok |-> FALSE, r |-> << >>, s |-> << >>, v |-> 0]
     ELSE [ok |-> TRUE, r |-> normalizeHex(rHex), s |-> normalizeHex(sHex),
           v |-> normalizedV(parsed.v)]

(***************************************************************************)
(* The order action and its MessagePack encoding                           *)
(***************************************************************************)

\* JavaScript values of the action: a string, a non-negative integer, a boolean,
\* undefined, an object (its <<key, value>> pairs in insertion order) or an array
\* (pairs with the empty key).
JsStr(s) == [t |-> "str", s |-> s, i |-> 0, b |-> FALSE, m |-> << >>]

JsInt(i) == [t |-> "int", s |-> << >>, i |-> i, b |-> FALSE, m |-> << >>]

JsBool(b) == [t |-> "bool", s |-> << >>, i |-> 0, b |-> b, m |-> << >>]

JsUndefined == [t |-> "undef", s |-> << >>, i |-> 0, b |-> FALSE, m |-> << >>]

JsMap(pairs) == [t |-> "map", s |-> << >>, i |-> 0, b |-> FALSE, m |-> pairs]

JsArr(items) ==
  [t |-> "arr", s |-> << >>, i |-> 0, b |-> FALSE,
   m |-> [k \in 1..Len(items) |-> << << >>, items[k] >>]]

\* The keys of an object, in order; has-key; the value of a key.
Keys(obj) == [k \in 1..Len(obj.m) |-> obj.m[k][1]]

HasKey(obj, key) == \E k \in 1..Len(obj.m) : obj.m[k][1] = key

Get(obj, key) == obj.m[CHOOSE k \in 1..Len(obj.m) : obj.m[k][1] = key][2]

\* The items of an array.
Items(arr) == [k \in 1..Len(arr.m) |-> arr.m[k][2]]

S_type == << "t", "y", "p", "e" >>

S_orders == << "o", "r", "d", "e", "r", "s" >>

S_order == << "o", "r", "d", "e", "r" >>

S_grouping == << "g", "r", "o", "u", "p", "i", "n", "g" >>

S_builder == << "b", "u", "i", "l", "d", "e", "r" >>

S_limit == << "l", "i", "m", "i", "t" >>

S_tif == << "t", "i", "f" >>

S_trigger == << "t", "r", "i", "g", "g", "e", "r" >>

S_isMarket == << "i", "s", "M", "a", "r", "k", "e", "t" >>

S_triggerPx == << "t", "r", "i", "g", "g", "e", "r", "P", "x" >>

S_tpsl == << "t", "p", "s", "l" >>

S_na == << "n", "a" >>

S_Ioc == << "I", "o", "c" >>

S_Gtc == << "G", "t", "c" >>

S_Alo == << "A", "l", "o" >>

S_tp == << "t", "p" >>

S_sl == << "s", "l" >>

S_a == << "a" >>

S_b == << "b" >>

S_p == << "p" >>

S_s == << "s" >>

S_r == << "r" >>

S_t == << "t" >>

S_c == << "c" >>

S_f == << "f" >>

\* The big-endian bytes of a natural number in n bytes (modulo 256^n).
RECURSIVE BigEndian(_, _)
BigEndian(value, n) ==
  IF n = 0 THEN << >> ELSE Append(BigEndian(value \div 256, n - 1), value % 256)

\* MessagePack string: fixstr below 32 bytes, str 8 below 256.
MsgpackString(s) ==
  (IF Len(s) < 32 THEN << 160 + Len(s) >> ELSE << 217, Len(s) >>)
    \o [k \in 1..Len(s) |-> CharCode(s[k])]

\* MessagePack non-negative integer: positive fixint, uint 8, uint 16, uint 32.
MsgpackUInt(i) ==
  IF i < 128 THEN << i >>
  ELSE IF i < 256 THEN << 204, i >>
  ELSE IF i < 65536 THEN << 205 >> \o BigEndian(i, 2)
  ELSE << 206 >> \o BigEndian(i, 4)

\* encode(value, { ignoreUndefined: true }) of @msgpack/msgpack: an object is a
\* fixmap of its pairs in key order, the pairs with an undefined value left out;
\* an array is a fixarray.
RECURSIVE encodeMsgpack(_)
encodeMsgpack(v) ==
  IF v.t = "str" THEN MsgpackString(v.s)
  ELSE IF v.t = "int" THEN MsgpackUInt(v.i)
  ELSE IF v.t = "bool" THEN << IF v.b THEN 195 ELSE 194 >>
  ELSE IF v.t = "undef" THEN << 192 >>
  ELSE IF v.t = "arr"
    THEN << 144 + Len(v.m) >> \o Flatten([k \in 1..Len(v.m) |-> encodeMsgpack(v.m[k][2])])
  ELSE LET kept == SelectSeq(v.m, LAMBDA pr : pr[2].t # "undef")
       IN << 128 + Len(kept) >>
            \o Flatten([k \in 1..Len(kept) |->
                          MsgpackString(kept[k][1]) \o encodeMsgpack(kept[k][2])])

(***************************************************************************)
(* createL1ActionHash                                                      *)
(***************************************************************************)

\* toUint64Bytes(value): setBigUint64 writes 8 big-endian bytes.
\* A variant of toUint64Bytes with the least significant byte first.
toUint64BytesLittleEndian(value) ==
  [k \in 1..8 |-> BigEndian(value, 8)[9 - k]]

toUint64Bytes(value) == BigEndian(value, 8)

\* hexToBytes of @noble/hashes: [ok, bytes]; ok = FALSE is the error thrown for a
\* string of odd length or with a character that is no hexadecimal digit.
hexToBytes(hex) ==
  IF Len(hex) % 2 # 0 \/ \E k \in 1..Len(hex) : ~IsHexDigit(hex[k])
  THEN [ok |-> FALSE, bytes |-> << >>]
  ELSE [ok |-> TRUE,
        bytes |-> [k \in 1..(Len(hex) \div 2) |->
                     16 * HexVal(hex[2 * k - 1]) + HexVal(hex[2 * k])]]

\* keccak_256, taken as collision-free: the digest stands for its preimage.
keccak_256(bytes) == [keccak256 |-> bytes]

\* The value of the marker byte that precedes the expiry bytes.
expiresMarkerByte == 0

\* The bytes createL1ActionHash concatenates and hashes. vaultAddress and
\* expiresAfter are optional; an empty vaultAddress string is falsy.
\* A variant of L1Preimage that leaves the expiry out.
L1PreimageWithoutExpiry(action, nonce, vaultAddress, expiresAfter) ==
  LET hasVault == vaultAddress # None /\ vaultAddress[1] # << >>
  IN encodeMsgpack(action) \o BigEndian(nonce, 8)
       \o (IF hasVault
           THEN << 1 >> \o hexToBytes(slice(vaultAddress[1], 2, Len(vaultAddress[1]))).bytes
           ELSE << 0 >>)

L1Preimage(action, nonce, vaultAddress, expiresAfter) ==
  LET hasVault == vaultAddress # None /\ vaultAddress[1] # << >>
      actionBytes == encodeMsgpack(action)
      nonceBytes == toUint64Bytes(nonce)
      vaultMarker == IF hasVault THEN << 1 >> ELSE << 0 >>
      vaultBytes == IF hasVault
                    THEN hexToBytes(slice(vaultAddress[1], 2, Len(vaultAddress[1]))).bytes
                    ELSE << >>
      hasExpiresAfter == expiresAfter # None
      expiresMarker == IF hasExpiresAfter THEN << expiresMarkerByte >> ELSE << >>
      expiresBytes == IF hasExpiresAfter THEN toUint64Bytes(expiresAfter[1]) ELSE << >>
  IN actionBytes \o nonceBytes \o vaultMarker \o vaultBytes \o expiresMarker \o expiresBytes

\* createL1ActionHash(args): [ok, hash]; ok = FALSE when hexToBytes throws.
createL1ActionHash(action, nonce, vaultAddress, expiresAfter) ==
  IF vaultAddress # None /\ vaultAddress[1] # << >>
     /\ ~hexToBytes(slice(vaultAddress[1], 2, Len(vaultAddress[1]))).ok
  THEN [ok |-> FALSE, hash |-> keccak_256(<< >>)]
  ELSE [ok |-> TRUE, hash |-> keccak_256(L1Preimage(action, nonce, vaultAddress, expiresAfter))]

(***************************************************************************)
(* Encoding of the order intents (the body of orders.map and the action)   *)
(***************************************************************************)

\* An order intent. tif, reduceOnly, clientId and trigger are optional; a trigger
\* is [triggerPx, isMarket (optional), tpsl].
Intent(symbol, side, price, size, tif, reduceOnly, clientId, trigger) ==
  [symbol |-> symbol, side |-> side, price |-> price, size |-> size, tif |-> tif,
   reduceOnly |-> reduceOnly, clientId |-> clientId, trigger |-> trigger]

Trigger(triggerPx, isMarket, tpsl) ==
  [triggerPx |-> triggerPx, isMarket |-> isMarket, tpsl |-> tpsl]

\* The t field of an encoded order: a trigger specification when the intent has a
\* trigger, a limit specification otherwise. triggerPx is the converted price.
\* A variant of limitOrTrigger that keeps the time-in-force of a trigger order.
limitAndTrigger(intent, triggerPx) ==
  IF intent.trigger # None
  THEN JsMap((IF intent.tif # None
              THEN << << S_limit, JsMap(<< << S_tif, JsStr(intent.tif[1]) >> >>) >> >>
              ELSE << >>)
             \o << << S_trigger,
                      JsMap(<< << S_isMarket,
                                  JsBool(intent.trigger[1].isMarket # None
                                         /\ intent.trigger[1].isMarket[1]) >>,
                               << S_triggerPx, JsStr(triggerPx) >>,
                               << S_tpsl, JsStr(intent.trigger[1].tpsl) >> >>) >> >>)
  ELSE JsMap(<< << S_limit,
                   JsMap(<< << S_tif,
                               JsStr(IF intent.tif # None THEN intent.tif[1] ELSE S_Ioc) >> >>) >> >>)

limitOrTrigger(intent, triggerPx) ==
  IF intent.trigger # None
  THEN JsMap(<< << S_trigger,
                   JsMap(<< << S_isMarket,
                               JsBool(intent.trigger[1].isMarket # None
                                      /\ intent.trigger[1].isMarket[1]) >>,
                            << S_triggerPx, JsStr(triggerPx) >>,
                            << S_tpsl, JsStr(intent.trigger[1].tpsl) >> >>) >> >>)
  ELSE JsMap(<< << S_limit,
                   JsMap(<< << S_tif,
                               JsStr(IF intent.tif # None THEN intent.tif[1] ELSE S_Ioc) >> >>) >> >>)

\* A variant of orderOf that puts the client id first.
orderOfClientIdFirst(intent, assetIndex, triggerPx, p, sz) ==
  JsMap((IF intent.clientId # None /\ intent.clientId[1] # << >>
         THEN << << S_c, JsStr(normalizeHex(intent.clientId[1])) >> >>
         ELSE << >>)
        \o << << S_a, JsInt(assetIndex) >>,
              << S_b, JsBool(intent.side = "buy") >>,
              << S_p, JsStr(p) >>,
              << S_s, JsStr(sz) >>,
              << S_r, JsBool(intent.reduceOnly # None /\ intent.reduceOnly[1]) >>,
              << S_t, limitOrTrigger(intent, triggerPx) >> >>)

\* The encoded order of one intent whose conversions succeeded.
orderOf(intent, assetIndex, triggerPx, p, sz) ==
  JsMap(<< << S_a, JsInt(assetIndex) >>,
           << S_b, JsBool(intent.side = "buy") >>,
           << S_p, JsStr(p) >>,
           << S_s, JsStr(sz) >>,
           << S_r, JsBool(intent.reduceOnly # None /\ intent.reduceOnly[1]) >>,
           << S_t, limitOrTrigger(intent, triggerPx) >> >>
        \o (IF intent.clientId # None /\ intent.clientId[1] # << >>
            THEN << << S_c, JsStr(normalizeHex(intent.clientId[1])) >> >>
            ELSE << >>))

\* The orders.map callback for one intent: [ok, err, order]. The asset index is
\* resolved first, then the trigger price, the price and the size are converted;
\* the first failure is the error thrown.
prepareOrder(intent, universe) ==
  LET asset == resolveAssetIndex(intent.symbol, universe)
      trig == IF intent.trigger # None THEN toApiDecimal(intent.trigger[1].triggerPx)
              ELSE [ok |-> TRUE, s |-> << >>]
      p == toApiDecimal(intent.price)
      sz == toApiDecimal(intent.size)
  IN IF ~asset.ok THEN [ok |-> FALSE, err |-> "UnknownAsset", order |-> JsUndefined]
     ELSE IF ~trig.ok \/ ~p.ok \/ ~sz.ok
       THEN [ok |-> FALSE, err |-> "NonFinite", order |-> JsUndefined]
     ELSE [ok |-> TRUE, err |-> "none",
           order |-> orderOf(intent, asset.index, trig.s, p.s, sz.s)]

\* A variant of prepareOrders that leaves out the intents whose callback throws.
prepareOrdersSkippingFailures(orders, universe) ==
  LET each == [k \in 1..Len(orders) |-> prepareOrder(orders[k], universe)]
      Good(k) == each[k].ok
  IN [ok |-> TRUE, err |-> "none",
      orders |-> [k \in 1..Cardinality({ j \in 1..Len(orders) : Good(j) }) |->
                    each[CHOOSE j \in 1..Len(orders) :
                           Good(j) /\ Cardinality({ i \in 1..j : Good(i) }) = k].order]]

\* orders.map(...): [ok, err, orders]; the error is that of the first intent, in
\* sequence order, whose callback throws.
prepareOrders(orders, universe) ==
  LET each == [k \in 1..Len(orders) |-> prepareOrder(orders[k], universe)]
      Bad(k) == ~each[k].ok
  IN IF \E k \in 1..Len(orders) : Bad(k)
     THEN [ok |-> FALSE,
           err |-> each[CHOOSE k \in 1..Len(orders) : Bad(k) /\ \A j \in 1..(k - 1) : ~Bad(j)].err,
           orders |-> << >>]
     ELSE [ok |-> TRUE, err |-> "none", orders |-> [k \in 1..Len(orders) |-> each[k].order]]

\* A variant of buildAction that always sets the key builder, to undefined
\* without a builder fee.
buildActionBuilderAlways(preparedOrders, grouping, builder) ==
  JsMap(<< << S_type, JsStr(S_order) >>,
           << S_orders, JsArr(preparedOrders) >>,
           << S_grouping, JsStr(IF grouping # None THEN grouping[1] ELSE S_na) >>,
           << S_builder,
              IF builder # None
              THEN JsMap(<< << S_b, JsStr(normalizeAddress(builder[1].address)) >>,
                            << S_f, JsInt(builder[1].fee) >> >>)
              ELSE JsUndefined >> >>)

\* The action object: type, orders, grouping, and builder when one is given.
\* grouping is optional ("na" by default); builder is an optional [address, fee].
buildAction(preparedOrders, grouping, builder) ==
  JsMap(<< << S_type, JsStr(S_order) >>,
           << S_orders, JsArr(preparedOrders) >>,
           << S_grouping, JsStr(IF grouping # None THEN grouping[1] ELSE S_na) >> >>
        \o (IF builder # None
            THEN << << S_builder,
                       JsMap(<< << S_b, JsStr(normalizeAddress(builder[1].address)) >>,
                                << S_f, JsInt(builder[1].fee) >> >>) >> >>
            ELSE << >>))

(***************************************************************************)
(* The state of the pipeline                                               *)
(***************************************************************************)

VARIABLES
  now,        \* Date.now(), in milliseconds
  metaCache,  \* the module's metaCache: cache key -> [fetchedAt, universe]
  inv,        \* per invocation of placeHyperliquidOrder: position and locals
  fetched,    \* history: the metadata responses stored so far, [key, at, universe]
  started,    \* history: the number of invocations started
  call        \* a call of one pure helper: [fn, arg, out, done]

vars == << now, metaCache, inv, fetched, started, call >>

\* const CACHE_TTL_MS = 5 * 60 * 1000
CACHE_TTL_MS == 300000

S_mainnet == << "m", "a", "i", "n", "n", "e", "t" >>

S_testnet == << "t", "e", "s", "t", "n", "e", "t" >>

\* API_BASES
API_BASE_mainnet ==
  << "h", "t", "t", "p", "s", ":", "/", "/", "a", "p", "i", ".", "h", "y", "p", "e",
       "r", "l", "i", "q", "u", "i", "d", ".", "x", "y", "z" >>

API_BASE_testnet ==
  << "h", "t", "t", "p", "s", ":", "/", "/", "a", "p", "i", ".", "h", "y", "p", "e",
       "r", "l", "i", "q", "u", "i", "d", "-", "t", "e", "s", "t", "n", "e", "t",
       ".", "x", "y", "z" >>

API_BASES(environment) ==
  IF environment = S_testnet THEN API_BASE_testnet ELSE API_BASE_mainnet

\* String.prototype.includes.
includes(s, sub) ==
  \E k \in 0..(Len(s) - Len(sub)) : SubSeq(s, k + 1, k + Len(sub)) = sub

\* inferEnvironment(baseUrl), baseUrl optional.
inferEnvironment(baseUrl) ==
  IF baseUrl # None /\ includes(baseUrl[1], S_testnet) THEN S_testnet ELSE S_mainnet

\* The options of placeHyperliquidOrder. wallet is an optional [account,
\* walletClient] (which of the two the context holds); every other field but
\* orders is optional.
Options(wallet, orders, grouping, builder, environment, baseUrl, vaultAddress, expiresAfter, nonce) ==
  [wallet |-> wallet, orders |-> orders, grouping |-> grouping, builder |-> builder,
   environment |-> environment, baseUrl |-> baseUrl, vaultAddress |-> vaultAddress,
   expiresAfter |-> expiresAfter, nonce |-> nonce]

\* const inferredEnvironment = environment ?? inferEnvironment(baseUrl)
inferredEnvironment(opts) ==
  IF opts.environment # None THEN opts.environment[1] ELSE inferEnvironment(opts.baseUrl)

\* const resolvedBaseUrl = baseUrl ?? API_BASES[inferredEnvironment]
resolvedBaseUrl(opts) ==
  IF opts.baseUrl # None THEN opts.baseUrl[1] ELSE API_BASES(inferredEnvironment(opts))

\* const cacheKey = `${args.environment}:${args.baseUrl}`
cacheKey(environment, baseUrl) == environment \o << ":" >> \o baseUrl

\* The guard of getUniverse: an entry exists and is younger than the TTL at time t.
\* A variant of cacheHit that takes an entry of exactly the TTL as fresh.
cacheHitAtTtl(cache, key, t) ==
  key \in DOMAIN cache /\ t - cache[key].fetchedAt <= CACHE_TTL_MS

cacheHit(cache, key, t) ==
  key \in DOMAIN cache /\ t - cache[key].fetchedAt < CACHE_TTL_MS

(***************************************************************************)
(* The inputs the model draws from                                         *)
(***************************************************************************)

Sym_BTC_USD == << "B", "T", "C", "-", "U", "S", "D" >>

Sym_eth_usd == << "e", "t", "h", "-", "u", "s", "d" >>

Sym_SOL == << "S", "O", "L" >>

Sym_ZZZ_USD == << "Z", "Z", "Z", "-", "U", "S", "D" >>

S_BTC == << "B", "T", "C" >>

S_ETH == << "E", "T", "H" >>

S_SOL == << "S", "O", "L" >>

S_kPEPE == << "k", "P", "E", "P", "E" >>

Px_100000 == << "1", "0", "0", "0", "0", "0" >>

Sz_0_0001 == << "0", ".", "0", "0", "0", "1" >>

Px_2500 == << "2", "5", "0", "0" >>

Sz_1 == << "1" >>

Msg_InsufficientMargin == << "I", "n", "s", "u", "f", "f", "i", "c", "i", "e", "n", "t", " ", "m", "a", "r",
       "g", "i", "n" >>

Msg_Rejected == << "H", "y", "p", "e", "r", "l", "i", "q", "u", "i", "d", " ", "r", "e", "j", "e",
       "c", "t", "e", "d", " ", "t", "h", "e", " ", "o", "r", "d", "e", "r", "." >>

Msg_TooSmall == << "O", "r", "d", "e", "r", " ", "t", "o", "o", " ", "s", "m", "a", "l", "l" >>

\* Two metadata responses of the venue: the same assets at different positions.
Universe1 == << S_BTC, S_ETH, S_SOL >>

Universe2 == << S_SOL, S_BTC, S_ETH >>

\* s repeated n times.
RepeatSeq(s, n) == Flatten([k \in 1..n |-> s])

\* 20-byte addresses: one without and one with a leading zero byte.
VaultA == << "0", "x" >> \o RepeatSeq(<< "A", "b" >>, 20)

VaultZ == << "0", "x", "0", "0" >> \o RepeatSeq(<< "c", "d" >>, 19)

BuilderAddr == << "0", "x" >> \o RepeatSeq(<< "1", "2" >>, 20)

\* A 16-byte client order id.
Cloid == << "0", "x" >> \o RepeatSeq(<< "0", "F" >>, 16)

\* The two hexadecimal digits of a byte.
HexByte(n) == << HexDigits[(n \div 16) + 1], HexDigits[(n % 16) + 1] >>

\* A signature text of the wallet client: "0x", r, s and the recovery characters.
SigHex(r, sg, vChars) == << "0", "x" >> \o r \o sg \o vChars

SigR == RepeatSeq(<< "a", "1" >>, 32)

SigS == RepeatSeq(<< "7", "e" >>, 32)

\* An r with a leading zero byte.
SigRz == << "0", "0" >> \o RepeatSeq(<< "b", "2" >>, 31)

I_btc ==
  Intent(Sym_BTC_USD, "buy", StrValue(Px_100000), StrValue(Sz_0_0001), Some(S_Gtc),
         None, None, None)

I_eth_trigger ==
  Intent(Sym_eth_usd, "sell", StrValue(Px_2500), BigIntValue(FALSE, << "3" >>), None,
         Some(TRUE), None,
         Some(Trigger(NumValue(Num(FALSE, << "2", "4", "5" >>, 4)), Some(TRUE), S_tp)))

I_sol_cid ==
  Intent(Sym_SOL, "buy", NumValue(Num(FALSE, << "2", "5" >>, 2)), StrValue(Sz_1),
         Some(S_Alo), None, Some(Cloid), None)

I_zzz ==
  Intent(Sym_ZZZ_USD, "buy", StrValue(Px_100000), StrValue(Sz_1), None, None, None, None)

I_nan ==
  Intent(Sym_BTC_USD, "sell", NumValue(NaN), StrValue(Sz_1), None, None, None, None)

FullWallet == Some([account |-> TRUE, walletClient |-> TRUE])

\* The options an invocation is started with.
OptionChoices ==
  << \* one limit order on the production venue, nonce from the clock
     Options(FullWallet, << I_btc >>, None, None, None, None, None, None, None),
     \* a batch on the test venue with vault, expiry, builder and explicit nonce
     Options(FullWallet, << I_eth_trigger, I_sol_cid >>, Some(S_na),
             Some([address |-> BuilderAddr, fee |-> 10]), Some(S_testnet), None,
             Some(VaultA), Some(900000), Some(7)),
     \* a wallet context without an account
     Options(Some([account |-> FALSE, walletClient |-> TRUE]), << I_btc >>, None, None,
             None, None, None, None, None),
     \* an empty batch
     Options(FullWallet, << >>, None, None, None, None, None, None, None),
     \* an unknown symbol at the second position
     Options(FullWallet, << I_btc, I_zzz >>, None, None, None, None, None, None, None),
     \* a non-finite price
     Options(FullWallet, << I_nan >>, None, None, None, None, None, None, None),
     \* the test venue given by baseUrl alone, a vault address with a leading zero byte
     Options(FullWallet, << I_sol_cid >>, None, None, None, Some(API_BASE_testnet),
             Some(VaultZ), None, Some(7)),
     \* environment and baseUrl both given, naming different venues
     Options(FullWallet, << I_btc >>, None, None, Some(S_mainnet), Some(API_BASE_testnet),
             None, None, Some(7)) >>

\* The responses of the info endpoint: [ok, json], json the optional parsed body,
\* a body being [universe], universe optional.
MetaResponses ==
  { [ok |-> TRUE, json |-> Some([universe |-> Some(Universe1)])],
    [ok |-> TRUE, json |-> Some([universe |-> Some(Universe2)])],
    [ok |-> FALSE, json |-> Some([universe |-> None])],
    [ok |-> TRUE, json |-> None] }

\* What the wallet client's signTypedData returns.
SignatureChoices ==
  { SigHex(SigR, SigS, HexByte(28)),
    SigHex(SigRz, SigS, HexByte(0)),
    SigHex(SigR, << >>, << >>) }

\* The outcome of one order in a response: resting, filled or error.
Outcome(kind, error) == [kind |-> kind, error |-> error]

\* The responses of the exchange endpoint: [ok, json], json the optional parsed
\* body [status, statuses], statuses the optional response.data.statuses.
ExchangeResponses ==
  { [ok |-> TRUE,
     json |-> Some([status |-> "ok", statuses |-> Some(<< Outcome("resting", << >>) >>)])],
    [ok |-> TRUE,
     json |-> Some([status |-> "ok",
                    statuses |-> Some(<< Outcome("error", Msg_InsufficientMargin),
                                         Outcome("resting", << >>) >>)])],
    [ok |-> TRUE,
     json |-> Some([status |-> "ok",
                    statuses |-> Some(<< Outcome("error", Msg_InsufficientMargin),
                                         Outcome("filled", << >>),
                                         Outcome("error", Msg_TooSmall) >>)])],
    [ok |-> TRUE,
     json |-> Some([status |-> "ok", statuses |-> Some(<< Outcome("error", << >>) >>)])],
    [ok |-> TRUE, json |-> Some([status |-> "ok", statuses |-> None])],
    [ok |-> TRUE, json |-> Some([status |-> "err", statuses |-> None])],
    [ok |-> FALSE, json |-> Some([status |-> "err", statuses |-> None])],
    [ok |-> TRUE, json |-> None] }

(***************************************************************************)
(* placeHyperliquidOrder as a state machine                                *)
(***************************************************************************)

\* The invocations that may be in flight together.
Procs == { "p1", "p2" }

\* The number of invocations started in one behaviour.
MaxCalls == 2

\* The number of times the clock advances in one behaviour.
MaxTicks == 2

\* The clock advances by a millisecond or by a millisecond less than the TTL.
TickSteps == { 1, CACHE_TTL_MS - 1 }

\* The times reached by n advances of the clock, from time 0.
RECURSIVE TimesAfter(_)
TimesAfter(n) ==
  IF n = 0 THEN { 0 } ELSE { t + d : t \in TimesAfter(n - 1), d \in TickSteps }

NoSignature == [ok |-> FALSE, r |-> << >>, s |-> << >>, v |-> 0]

\* An invocation that has not started: no locals are set.
IdleInv ==
  [pc |-> "idle", opt |-> 0, key |-> << >>, age |-> -1, universe |-> << >>,
   action |-> JsUndefined, nonce |-> -1, hash |-> keccak_256(<< >>), source |-> << >>,
   signature |-> NoSignature, body |-> None, request |-> None, err |-> "none", errMessage |-> << >>,
   result |-> None, stages |-> << >>, infoFetches |-> 0, signCalls |-> 0, posts |-> 0]

\* A variant of Throw that takes up the run again at the encoding when the
\* signing call was rejected.
ThrowOrSignAgain(rec, e) ==
  IF e = "SignerThrew" /\ rec.signCalls < 3 THEN [rec EXCEPT !.pc = "haveUniverse"]
  ELSE [rec EXCEPT !.pc = "thrown", !.err = e]

\* throw: the invocation ends with error e.
Throw(rec, e) == [rec EXCEPT !.pc = "thrown", !.err = e]

\* A variant of cacheSet that updates the timestamp of an entry in place and
\* leaves its universe.
cacheSetTimestampOnly(cache, key, t, universe) ==
  [k \in (DOMAIN cache) \cup { key } |->
     IF k # key THEN cache[k]
     ELSE IF key \in DOMAIN cache THEN [fetchedAt |-> t, universe |-> cache[key].universe]
     ELSE [fetchedAt |-> t, universe |-> universe]]

\* metaCache.set(cacheKey, { fetchedAt: Date.now(), universe: json.universe })
cacheSet(cache, key, t, universe) ==
  [k \in (DOMAIN cache) \cup { key } |->
     IF k = key THEN [fetchedAt |-> t, universe |-> universe] ELSE cache[k]]

\* The start of placeHyperliquidOrder up to its first await: the wallet and the
\* batch are checked, then getUniverse looks the cache up and either returns the
\* cached universe or issues the metadata fetch.
Invoke(p, o) ==
  /\ inv[p].pc = "idle"
  /\ started < MaxCalls
  /\ started' = started + 1
  /\ \E opts \in { OptionChoices[o] } :
     \E key \in { cacheKey(inferredEnvironment(opts), resolvedBaseUrl(opts)) } :
     \E age \in { IF key \in DOMAIN metaCache THEN now - metaCache[key].fetchedAt ELSE -1 } :
     \E rec \in { [inv[p] EXCEPT !.opt = o] } :
     \E looked \in { [rec EXCEPT !.key = key, !.age = age, !.stages = << "universe" >>] } :
       inv' = [inv EXCEPT ![p] =
          IF opts.wallet = None \/ ~opts.wallet[1].account \/ ~opts.wallet[1].walletClient
          THEN Throw(rec, "NoSigner")
          ELSE IF Len(opts.orders) = 0 THEN Throw(rec, "EmptyBatch")
          ELSE IF cacheHit(metaCache, key, now)
            THEN [looked EXCEPT !.pc = "haveUniverse", !.universe = metaCache[key].universe]
          ELSE [looked EXCEPT !.pc = "awaitMeta", !.infoFetches = @ + 1]]
  /\ UNCHANGED << now, metaCache, fetched, call >>

\* A variant of MetaResponse that answers a failed fetch with the cached universe
\* when there is one, and marks the entry as fetched now.
MetaResponseStaleFallback(p, resp) ==
  /\ inv[p].pc = "awaitMeta"
  /\ IF ~resp.ok \/ resp.json = None \/ resp.json[1].universe = None
     THEN IF inv[p].key \in DOMAIN metaCache
          THEN /\ inv' = [inv EXCEPT ![p].pc = "haveUniverse",
                                     ![p].universe = metaCache[inv[p].key].universe]
               /\ metaCache' = [metaCache EXCEPT ![inv[p].key].fetchedAt = now]
               /\ UNCHANGED fetched
          ELSE /\ inv' = [inv EXCEPT ![p] = Throw(@, "MetadataUnavailable")]
               /\ UNCHANGED << metaCache, fetched >>
     ELSE LET universe == resp.json[1].universe[1]
          IN /\ metaCache' = cacheSet(metaCache, inv[p].key, now, universe)
             /\ fetched' = fetched \cup
                  { [key |-> inv[p].key, at |-> now, universe |-> universe] }
             /\ inv' = [inv EXCEPT ![p].pc = "haveUniverse", ![p].universe = universe]
  /\ UNCHANGED << now, started, call >>

\* The metadata response arrives and is parsed: getUniverse throws, or stores the
\* universe with the current time and returns it.
MetaResponse(p, resp) ==
  /\ inv[p].pc = "awaitMeta"
  /\ IF ~resp.ok \/ resp.json = None \/ resp.json[1].universe = None
     THEN /\ inv' = [inv EXCEPT ![p] = Throw(@, "MetadataUnavailable")]
          /\ UNCHANGED << metaCache, fetched >>
     ELSE LET universe == resp.json[1].universe[1]
          IN /\ metaCache' = cacheSet(metaCache, inv[p].key, now, universe)
             /\ fetched' = fetched \cup
                  { [key |-> inv[p].key, at |-> now, universe |-> universe] }
             /\ inv' = [inv EXCEPT ![p].pc = "haveUniverse", ![p].universe = universe]
  /\ UNCHANGED << now, started, call >>

\* A variant of effectiveNonce that always reads the clock.
effectiveNonceFromClock(opts, t) == t

\* const effectiveNonce = nonce ?? Date.now()
effectiveNonce(opts, t) == IF opts.nonce # None THEN opts.nonce[1] ELSE t

\* source: isTestnet ? "b" : "a"
sourceTag(isTestnet) == IF isTestnet THEN << "b" >> ELSE << "a" >>

\* The stages recorded when the universe is at hand, by how far the run gets: the
\* encoding, the hash, the signing call.
stagesToSign(encoded, hashed) ==
  IF ~encoded THEN << "encode" >>
  ELSE IF ~hashed THEN << "encode", "hash" >>
  ELSE << "encode", "hash", "sign" >>

\* A variant of Prepare that reads the universe from the cache again.
PrepareFromCache(p) ==
  /\ inv[p].pc = "haveUniverse"
  /\ \E opts \in { OptionChoices[inv[p].opt] } :
     \E universe \in { IF inv[p].key \in DOMAIN metaCache
                       THEN metaCache[inv[p].key].universe ELSE inv[p].universe } :
     \E prepared \in { prepareOrders(opts.orders, universe) } :
     \E action \in { buildAction(prepared.orders, opts.grouping, opts.builder) } :
     \E nonce \in { effectiveNonce(opts, now) } :
     \E actionHash \in { createL1ActionHash(action, nonce, opts.vaultAddress,
                                            opts.expiresAfter) } :
     \E done \in { [inv[p] EXCEPT !.stages = @ \o stagesToSign(prepared.ok, actionHash.ok)] } :
       inv' = [inv EXCEPT ![p] =
          IF ~prepared.ok THEN Throw(done, prepared.err)
          ELSE IF ~actionHash.ok THEN Throw(done, "HashFailed")
          ELSE [done EXCEPT !.pc = "awaitSign", !.action = action, !.nonce = nonce,
                            !.hash = actionHash.hash,
                            !.source = sourceTag(inferredEnvironment(opts) = S_testnet),
                            !.signCalls = @ + 1]]
  /\ UNCHANGED << now, metaCache, fetched, started, call >>

\* With the universe at hand: the orders are encoded, the action is built, the
\* nonce chosen, the hash computed and signTypedData called, without an await in
\* between.
Prepare(p) ==
  /\ inv[p].pc = "haveUniverse"
  /\ \E opts \in { OptionChoices[inv[p].opt] } :
     \E prepared \in { prepareOrders(opts.orders, inv[p].universe) } :
     \E action \in { buildAction(prepared.orders, opts.grouping, opts.builder) } :
     \E nonce \in { effectiveNonce(opts, now) } :
     \E actionHash \in { createL1ActionHash(action, nonce, opts.vaultAddress,
                                            opts.expiresAfter) } :
     \E done \in { [inv[p] EXCEPT !.stages = @ \o stagesToSign(prepared.ok, actionHash.ok)] } :
       inv' = [inv EXCEPT ![p] =
          IF ~prepared.ok THEN Throw(done, prepared.err)
          ELSE IF ~actionHash.ok THEN Throw(done, "HashFailed")
          ELSE [done EXCEPT !.pc = "awaitSign", !.action = action, !.nonce = nonce,
                            !.hash = actionHash.hash,
                            !.source = sourceTag(inferredEnvironment(opts) = S_testnet),
                            !.signCalls = @ + 1]]
  /\ UNCHANGED << now, metaCache, fetched, started, call >>

\* A variant of requestBody whose action has lost the builder block.
requestBodyWithoutBuilder(action, nonce, signature, vaultAddress, expiresAfter) ==
  [action |-> JsMap(SelectSeq(action.m, LAMBDA pr : pr[1] # S_builder)),
   nonce |-> nonce, signature |-> signature,
   vaultAddress |-> IF vaultAddress # None /\ vaultAddress[1] # << >>
                    THEN Some(normalizeAddress(vaultAddress[1])) ELSE None,
   expiresAfter |-> expiresAfter]

\* A variant of requestBody that leaves the expiry out.
requestBodyWithoutExpiry(action, nonce, signature, vaultAddress, expiresAfter) ==
  [action |-> action, nonce |-> nonce, signature |-> signature,
   vaultAddress |-> IF vaultAddress # None /\ vaultAddress[1] # << >>
                    THEN Some(normalizeAddress(vaultAddress[1])) ELSE None,
   expiresAfter |-> None]

\* The request body: action, nonce, signature, and vaultAddress and expiresAfter
\* when given.
requestBody(action, nonce, signature, vaultAddress, expiresAfter) ==
  [action |-> action, nonce |-> nonce, signature |-> signature,
   vaultAddress |-> IF vaultAddress # None /\ vaultAddress[1] # << >>
                    THEN Some(normalizeAddress(vaultAddress[1])) ELSE None,
   expiresAfter |-> expiresAfter]

S_exchangePath == << "/", "e", "x", "c", "h", "a", "n", "g", "e" >>

\* fetcher(`${resolvedBaseUrl}/exchange`, { method: "POST", headers: { "content-type":
\* "application/json" }, body: JSON.stringify(body) }): what is sent beside the body.
exchangeRequest(baseUrl) ==
  [url |-> baseUrl \o S_exchangePath, method |-> "POST", contentType |-> "application/json"]

\* Whether the run goes on to the POST once signL1Action has returned: only with
\* a signature that splitSignature produced.
\* A variant of submits that goes on whatever the signature.
submitsAlways(signature) == TRUE

submits(signature) == signature.ok

\* signTypedData returns: the signature is split, the body built and the POST to
\* the exchange endpoint issued.
SignReturn(p, signatureHex) ==
  /\ inv[p].pc = "awaitSign"
  /\ \E opts \in { OptionChoices[inv[p].opt] } :
     \E signature \in { splitSignature(signatureHex) } :
     \E body \in { requestBody(inv[p].action, inv[p].nonce, signature, opts.vaultAddress,
                               opts.expiresAfter) } :
       inv' = [inv EXCEPT ![p] =
          IF ~submits(signature) THEN Throw(@, "InvalidSignature")
          ELSE [@ EXCEPT !.pc = "awaitPost", !.signature = signature, !.body = Some(body),
                         !.request = Some(exchangeRequest(resolvedBaseUrl(opts))),
                         !.posts = @ + 1, !.stages = Append(@, "post")]]
  /\ UNCHANGED << now, metaCache, fetched, started, call >>

\* signTypedData rejects.
SignThrow(p) ==
  /\ inv[p].pc = "awaitSign"
  /\ inv' = [inv EXCEPT ![p] = Throw(@, "SignerThrew")]
  /\ UNCHANGED << now, metaCache, fetched, started, call >>

\* A variant of join that leaves the separator out.
RECURSIVE joinWithoutSeparator(_, _)
joinWithoutSeparator(parts, sep) ==
  IF parts = << >> THEN << >> ELSE parts[1] \o joinWithoutSeparator(Tail(parts), sep)

\* Array.prototype.join.
RECURSIVE join(_, _)
join(parts, sep) ==
  IF parts = << >> THEN << >>
  ELSE IF Len(parts) = 1 THEN parts[1]
  ELSE parts[1] \o sep \o join(Tail(parts), sep)

Msg_SubmitFailed ==
  << "F", "a", "i", "l", "e", "d", " ", "t", "o", " ", "s", "u", "b", "m", "i", "t", " ",
     "H", "y", "p", "e", "r", "l", "i", "q", "u", "i", "d", " ", "o", "r", "d", "e", "r", "." >>

Msg_ApiStatus ==
  << "H", "y", "p", "e", "r", "l", "i", "q", "u", "i", "d", " ", "A", "P", "I", " ",
     "r", "e", "t", "u", "r", "n", "e", "d", " ", "a", "n", " ", "e", "r", "r", "o", "r", " ",
     "s", "t", "a", "t", "u", "s", "." >>

\* A variant of validateResponse that looks at the status of the body first.
validateResponseStatusFirst(resp) ==
  IF resp.json # None /\ resp.json[1].status # "ok"
  THEN [ok |-> FALSE, err |-> "ApiStatus", message |-> Msg_ApiStatus]
  ELSE IF ~resp.ok \/ resp.json = None
    THEN [ok |-> FALSE, err |-> "SubmitFailed", message |-> Msg_SubmitFailed]
  ELSE [ok |-> TRUE, err |-> "none", message |-> << >>]

\* The checks on the exchange response: [ok, err, message], message the message
\* of the HyperliquidApiError thrown.
validateResponse(resp) ==
  IF ~resp.ok \/ resp.json = None
  THEN [ok |-> FALSE, err |-> "SubmitFailed", message |-> Msg_SubmitFailed]
  ELSE IF resp.json[1].status # "ok"
    THEN [ok |-> FALSE, err |-> "ApiStatus", message |-> Msg_ApiStatus]
  ELSE LET statuses == IF resp.json[1].statuses # None THEN resp.json[1].statuses[1] ELSE << >>
           errorStatuses == SelectSeq(statuses, LAMBDA entry : entry.kind = "error")
           message == join([k \in 1..Len(errorStatuses) |-> errorStatuses[k].error],
                           << ",", " " >>)
       IN IF Len(errorStatuses) # 0
          THEN [ok |-> FALSE, err |-> "OrderRejected",
                message |-> IF message # << >> THEN message ELSE Msg_Rejected]
          ELSE [ok |-> TRUE, err |-> "none", message |-> << >>]

\* The exchange response arrives and is validated: the parsed body is returned,
\* or a HyperliquidApiError thrown.
PostResponse(p, resp) ==
  /\ inv[p].pc = "awaitPost"
  /\ \E checked \in { validateResponse(resp) } :
     \E seen \in { [inv[p] EXCEPT !.stages = Append(@, "validate"), !.result = resp.json] } :
       inv' = [inv EXCEPT ![p] =
          IF checked.ok THEN [seen EXCEPT !.pc = "returned"]
          ELSE [Throw(seen, checked.err) EXCEPT !.errMessage = checked.message]]
  /\ UNCHANGED << now, metaCache, fetched, started, call >>

\* The caller has the outcome; the slot is free for the next invocation.
Finish(p) ==
  /\ inv[p].pc \in { "returned", "thrown" }
  /\ inv' = [inv EXCEPT ![p] = IdleInv]
  /\ UNCHANGED << now, metaCache, fetched, started, call >>

\* Time passes.
Tick(d) ==
  /\ \E n \in 1..MaxTicks : now + d \in TimesAfter(n)
  /\ now' = now + d
  /\ UNCHANGED << metaCache, inv, fetched, started, call >>

NoCall == [fn |-> "none", arg |-> << >>, out |-> << >>, done |-> FALSE]

Init ==
  /\ now = 0
  /\ metaCache = [k \in {} |-> 0]
  /\ inv = [p \in Procs |-> IdleInv]
  /\ fetched = {}
  /\ started = 0
  /\ call = NoCall

\* The options of the runs on the venue the environment names: the first six.
PipelineOptions == { o \in 1..Len(OptionChoices) : OptionChoices[o].baseUrl = None }

\* One invocation at a time, over every response and signature.
Next ==
  \/ \E o \in PipelineOptions : Invoke("p1", o)
  \/ \E resp \in MetaResponses : MetaResponse("p1", resp)
  \/ Prepare("p1")
  \/ \E signatureHex \in SignatureChoices : SignReturn("p1", signatureHex)
  \/ SignThrow("p1")
  \/ \E resp \in ExchangeResponses : PostResponse("p1", resp)
  \/ Finish("p1")
  \/ \E d \in TickSteps : Tick(d)

Spec == Init /\ [][Next]_vars

\* The inputs of the interleaved invocations: the two valid option sets, the
\* parsed metadata responses, a well-formed signature, an accepted batch.
ConcurrentOptions == { 1, 2 }

ConcurrentSignatures == { SigHex(SigR, SigS, HexByte(28)) }

ConcurrentMetaResponses == { r \in MetaResponses : r.json # None }

ConcurrentResponses ==
  { r \in ExchangeResponses :
      /\ r.ok /\ r.json # None /\ r.json[1].status = "ok"
      /\ r.json[1].statuses # None
      /\ Len(r.json[1].statuses[1]) = 1
      /\ r.json[1].statuses[1][1].kind # "error" }

\* Two invocations, one per slot, interleaved at their awaits.
NextConcurrent ==
  \/ \E p \in Procs, o \in ConcurrentOptions : Invoke(p, o)
  \/ \E p \in Procs, resp \in ConcurrentMetaResponses : MetaResponse(p, resp)
  \/ \E p \in Procs : Prepare(p)
  \/ \E p \in Procs, signatureHex \in ConcurrentSignatures : SignReturn(p, signatureHex)
  \/ \E p \in Procs, resp \in ConcurrentResponses : PostResponse(p, resp)
  \/ \E d \in TickSteps : Tick(d)

SpecConcurrent == Init /\ [][NextConcurrent]_vars

\* The options that choose the venue: by environment, by baseUrl, by both.
VenueOptions == { o \in 1..Len(OptionChoices) :
                    OptionChoices[o].environment # None \/ OptionChoices[o].baseUrl # None }

\* One invocation at a time over the options that choose the venue, with the
\* metadata of one universe.
NextVenue ==
  \/ \E o \in VenueOptions : Invoke("p1", o)
  \/ \E resp \in { r \in ConcurrentMetaResponses : r.ok } : MetaResponse("p1", resp)
  \/ Prepare("p1")
  \/ \E signatureHex \in SignatureChoices : SignReturn("p1", signatureHex)
  \/ SignThrow("p1")
  \/ \E resp \in ConcurrentResponses : PostResponse("p1", resp)
  \/ Finish("p1")
  \/ \E d \in TickSteps : Tick(d)

SpecVenue == Init /\ [][NextVenue]_vars

(***************************************************************************)
(* Calls of the pure helpers, one per behaviour                            *)
(***************************************************************************)

\* The symbols resolveAssetIndex is applied to.
ResolveSymbols ==
  { << "B", "T", "C", "-", "U", "S", "D" >>,
    << "b", "t", "c" >>,
    << "E", "t", "h", "-", "U", "S", "D" >>,
    << "Z", "Z", "Z", "-", "U", "S", "D" >>,
    << " ", "B", "T", "C", "-", "U", "S", "D" >>,
    << "B", "T", "C", " ", "-", "U", "S", "D" >>,
    << " ", "b", "t", "c", " ", "-", "u", "s", "d" >>,
    << "S", "O", "L" >>,
    << "-", "B", "T", "C" >>,
    << "B", "T", "C", "-", "U", "S", "D", "-", "P", "E", "R", "P" >>,
    << "U", "S", "D", "-", "B", "T", "C" >>,
    << >>,
    << "k", "p", "e", "p", "e", "-", "u", "s", "d" >>,
    << "B", "T" >> }

\* The universes it is applied to: the two responses, one with a mixed-case name,
\* the empty one.
ResolveUniverses == { Universe1, Universe2, << S_kPEPE, S_BTC >>, << >> }

ResolveInputs == [symbol : ResolveSymbols, universe : ResolveUniverses]

\* The intents prepareOrder is applied to.
EncodeIntents ==
  { Intent(Sym_BTC_USD, side, price, StrValue(Sz_1), tif, reduceOnly, clientId, trigger) :
      side \in { "buy", "sell" },
      price \in { StrValue(Px_2500), NumValue(Num(FALSE, << "2", "5" >>, 2)), NumValue(NaN) },
      tif \in { None, Some(S_Gtc), Some(S_Alo) },
      reduceOnly \in { None, Some(TRUE) },
      clientId \in { None, Some(Cloid) },
      trigger \in { None,
                    Some(Trigger(StrValue(Px_2500), Some(TRUE), S_tp)),
                    Some(Trigger(NumValue(Num(FALSE, << "1", "5" >>, 1)), None, S_sl)) } }

\* The signature texts splitSignature is applied to: every recovery byte after
\* two values of r, and texts without a recovery byte, with one recovery digit,
\* with a character that is no hexadecimal digit, and with a 66th byte.
SplitInputs ==
  { SigHex(r, SigS, HexByte(v)) : r \in { SigR, SigRz }, v \in 0..255 }
    \cup { SigHex(SigR, << >>, << >>),
           SigHex(SigR, SigS, << >>),
           SigHex(SigR, SigS, << "1" >>),
           SigHex(SigR, SigS, << "g", "1" >>),
           SigHex(SigR, SigS, << "1", "g" >>),
           SigHex(SigR, SigS, << "1", "b", "f", "f" >>) }

\* The inputs of createL1ActionHash: the action of one order and of its variants
\* in one field each (asset, side, price, size, reduce-only, time-in-force,
\* trigger, client id), nonces, vault addresses and expiries.
HashIntents ==
  { I_btc,
    [I_btc EXCEPT !.symbol = Sym_eth_usd],
    [I_btc EXCEPT !.side = "sell"],
    [I_btc EXCEPT !.price = StrValue(Px_2500)],
    [I_btc EXCEPT !.size = StrValue(Sz_1)],
    [I_btc EXCEPT !.reduceOnly = Some(TRUE)],
    [I_btc EXCEPT !.tif = Some(S_Alo)],
    [I_btc EXCEPT !.trigger = Some(Trigger(StrValue(Px_2500), Some(TRUE), S_tp))],
    [I_btc EXCEPT !.clientId = Some(Cloid)] }

HashActions ==
  { buildAction(prepareOrders(<< i >>, Universe1).orders, None, None) : i \in HashIntents }

HashNonces == { 0, 1, 256, 1700000000 }

HashVaults == { None, Some(VaultA), Some(VaultZ) }

HashExpiries == { None, Some(0), Some(1700000001) }

HashInputs ==
  [action : HashActions, nonce : HashNonces, vaultAddress : HashVaults,
   expiresAfter : HashExpiries]

\* The number of the four inputs in which x and y differ.
DiffCount(x, y) ==
  (IF x.action # y.action THEN 1 ELSE 0) + (IF x.nonce # y.nonce THEN 1 ELSE 0)
    + (IF x.vaultAddress # y.vaultAddress THEN 1 ELSE 0)
    + (IF x.expiresAfter # y.expiresAfter THEN 1 ELSE 0)

\* Pairs of inputs that are equal or differ in one of the four.
HashPairs == { pr \in HashInputs \X HashInputs : DiffCount(pr[1], pr[2]) <= 1 }

\* The numbers toApiDecimal is applied to: zero, and mantissas of one to three
\* digits of either sign, with exponents that make the rendering plain (with and
\* without a fraction) or exponential (below 1e-6, and from 1e21 on); NaN and
\* Infinity besides.
DecimalInputs ==
  { Num(FALSE, << "0" >>, 0), NaN, Infinity }
    \cup { Num(neg, digits, n) :
             neg \in BOOLEAN,
             digits \in { << "1" >>, << "1", "5" >>, << "1", "2", "3" >> },
             n \in { -7, -6, -5, 0, 1, 2, 3, 21, 22, 23 } }

Call(fn, arg) == [fn |-> fn, arg |-> arg, out |-> << >>, done |-> FALSE]

InitFn ==
  /\ now = 0
  /\ metaCache = [k \in {} |-> 0]
  /\ inv = [p \in Procs |-> IdleInv]
  /\ fetched = {}
  /\ started = 0
  /\ call \in { Call("resolveAssetIndex", a) : a \in ResolveInputs }
       \cup { Call("prepareOrder", a) : a \in EncodeIntents }
       \cup { Call("splitSignature", a) : a \in SplitInputs }
       \cup { Call("createL1ActionHash", a) : a \in HashInputs }
       \cup { Call("createL1ActionHashTwice", a) : a \in HashPairs }
       \cup { Call("toApiDecimal", a) : a \in DecimalInputs }

\* The call returns (or throws): out is the result.
Return(out) ==
  /\ call' = [call EXCEPT !.out = out, !.done = TRUE]
  /\ UNCHANGED << now, metaCache, inv, fetched, started >>

CallResolveAssetIndex ==
  /\ call.fn = "resolveAssetIndex" /\ ~call.done
  /\ Return(resolveAssetIndex(call.arg.symbol, call.arg.universe))

CallPrepareOrder ==
  /\ call.fn = "prepareOrder" /\ ~call.done
  /\ Return(prepareOrder(call.arg, Universe1))

CallSplitSignature ==
  /\ call.fn = "splitSignature" /\ ~call.done
  /\ Return(splitSignature(call.arg))

\* The call keeps the bytes that were hashed beside the hash.
CallCreateL1ActionHash ==
  /\ call.fn = "createL1ActionHash" /\ ~call.done
  /\ Return(createL1ActionHash(call.arg.action, call.arg.nonce, call.arg.vaultAddress,
                               call.arg.expiresAfter))

\* Two calls, one after the other.
CallCreateL1ActionHashTwice ==
  /\ call.fn = "createL1ActionHashTwice" /\ ~call.done
  /\ Return(<< createL1ActionHash(call.arg[1].action, call.arg[1].nonce,
                                  call.arg[1].vaultAddress, call.arg[1].expiresAfter),
               createL1ActionHash(call.arg[2].action, call.arg[2].nonce,
                                  call.arg[2].vaultAddress, call.arg[2].expiresAfter) >>)

CallToApiDecimal ==
  /\ call.fn = "toApiDecimal" /\ ~call.done
  /\ Return(toApiDecimal(NumValue(call.arg)))

NextFn ==
  \/ CallResolveAssetIndex
  \/ CallPrepareOrder
  \/ CallSplitSignature
  \/ CallCreateL1ActionHash
  \/ CallCreateL1ActionHashTwice
  \/ CallToApiDecimal

SpecFn == InitFn /\ [][NextFn]_vars

(***************************************************************************)
(* The handlers built on the pipeline: one run of a handler is the value   *)
(* of call, with its position pc, its locals loc, the calls it has issued  *)
(* (effects, in order) and its response.                                   *)
(***************************************************************************)

S_Infinity == << "I", "n", "f", "i", "n", "i", "t", "y" >>

S_NaN == << "N", "a", "N" >>

S_FrontendMarket ==
  << "F", "r", "o", "n", "t", "e", "n", "d", "M", "a", "r", "k", "e", "t" >>

IsZero(x) == x.cls = "finite" /\ x.digits = << "0" >>

\* x > 0 and x < 0 of a number.
IsPositive(x) == x.cls # "nan" /\ ~x.neg /\ ~IsZero(x)

IsNegative(x) == x.cls # "nan" /\ x.neg /\ ~IsZero(x)

\* Math.abs.
abs(x) == [x EXCEPT !.neg = FALSE]

\* String(value) of a string or a number.
StringOf(value) ==
  IF value.t = "string" THEN value.s
  ELSE IF value.x.cls = "nan" THEN S_NaN
  ELSE IF value.x.cls = "inf" THEN (IF value.x.neg THEN << "-" >> ELSE << >>) \o S_Infinity
  ELSE NumberToString(value.x)

\* The number of digits a text starts with.
LeadingDigits(u) ==
  IF \A k \in 1..Len(u) : IsDigit(u[k]) THEN Len(u)
  ELSE (CHOOSE k \in 1..Len(u) : ~IsDigit(u[k]) /\ \A j \in 1..(k - 1) : IsDigit(u[j])) - 1

\* The number with integer digits int and fraction digits frac.
DecimalOf(neg, int, frac) ==
  LET all == int \o frac
      NonZero == { k \in 1..Len(all) : all[k] # "0" }
      first == CHOOSE k \in NonZero : \A j \in NonZero : k <= j
      last == CHOOSE k \in NonZero : \A j \in NonZero : k >= j
  IN IF NonZero = {} THEN Num(neg, << "0" >>, 0)
     ELSE Num(neg, SubSeq(all, first, last), Len(int) - (first - 1))

\* Number.parseFloat(s) for texts without an exponent part: leading blanks are
\* skipped, then the longest prefix that is a signed decimal or Infinity counts;
\* NaN when there is none.
parseFloat(s) ==
  LET t == TrimStart(s)
      signed == t # << >> /\ t[1] \in { "-", "+" }
      neg == t # << >> /\ t[1] = "-"
      u == IF signed THEN Tail(t) ELSE t
      intLen == LeadingDigits(u)
      rest == SubSeq(u, intLen + 1, Len(u))
      fracLen == IF rest # << >> /\ rest[1] = "." THEN LeadingDigits(Tail(rest)) ELSE 0
  IN IF Len(u) >= Len(S_Infinity) /\ SubSeq(u, 1, Len(S_Infinity)) = S_Infinity
     THEN [Infinity EXCEPT !.neg = neg]
     ELSE IF intLen + fracLen = 0 THEN NaN
     ELSE DecimalOf(neg, SubSeq(u, 1, intLen), SubSeq(rest, 2, fracLen + 1))

\* A run of a handler that has not started.
Run(fn, arg) ==
  [fn |-> fn, arg |-> arg, pc |-> "start", loc |-> << >>, effects |-> << >>,
   response |-> None, out |-> << >>, done |-> FALSE]

\* The handler answers.
Respond(c, status, ok) ==
  [c EXCEPT !.pc = "responded", !.response = Some([status |-> status, ok |-> ok]),
            !.done = TRUE]

\* The handler's promise rejects: an error escapes it.
Reject(c) == [c EXCEPT !.pc = "rejected", !.done = TRUE]

\* A call the handler issues and awaits.
Issue(c, pc, effect) == [c EXCEPT !.pc = pc, !.effects = Append(@, effect)]

\* The result of an awaited call: it returns a value, or throws an error (the
\* value is then a blank of the shape of the values).
Returned(value) == [threw |-> FALSE, error |-> "none", value |-> value]

Thrown(error, blank) == [threw |-> TRUE, error |-> error, value |-> blank]

\* wallet({chain}) returns a context or throws.
WalletResults == { Thrown("Error", [address |-> << >>]), Returned([address |-> VaultA]) }

\* The chain of an environment.
chainOf(environment) ==
  IF environment = S_mainnet THEN "arbitrum" ELSE "arbitrum-sepolia"

\* A position of the clearinghouse state: a coin, a size, a nested position.
Position(coin, szi, position) == [coin |-> coin, szi |-> szi, position |-> position]

\* The clearinghouse state a fetch can return: no data, data without positions,
\* and positions of the asset with a size that is a number, a text, or missing.
StateValues ==
  { [ok |-> FALSE, data |-> None],
    [ok |-> TRUE, data |-> Some([assetPositions |-> None])],
    [ok |-> TRUE, data |-> Some([assetPositions |-> Some(<< Position(Some(S_ETH), Some(StrValue(<< "7" >>)), None) >>)])] }
  \cup { [ok |-> TRUE, data |-> Some([assetPositions |-> Some(<< Position(None, None, None),
                                                                 Position(Some(S_BTC), szi, position) >>)])] :
           szi \in { None, Some(NumValue(Num(FALSE, << "5" >>, 0))) ,
                     Some(NumValue(Num(TRUE, << "2", "5" >>, 1))),
                     Some(NumValue(Num(FALSE, << "0" >>, 0))), Some(NumValue(NaN)),
                     Some(StrValue(<< "0", ".", "5" >>)), Some(StrValue(<< " " >>)),
                     Some(StrValue(<< "a", "b", "c" >>)) },
           position \in { None, Some([coin |-> Some(S_BTC), szi |-> None]),
                          Some([coin |-> Some(S_BTC), szi |-> Some(StrValue(<< "-", "0", ".", "5" >>))]) } }

StateResults ==
  { Thrown("Error", [ok |-> FALSE, data |-> None]) } \cup { Returned(v) : v \in StateValues }

\* placeHyperliquidOrder returns the exchange response, or throws a
\* HyperliquidApiError or another error.
OrderResults ==
  { Returned([status |-> "ok"]),
    Thrown("HyperliquidApiError", [status |-> "err"]),
    Thrown("Error", [status |-> "none"]) }

\* store(...) returns or throws.
StoreResults == { Returned(<< >>), Thrown("Error", << >>) }

(***************************************************************************)
(* tools/close-position.ts                                                 *)
(***************************************************************************)

\* The bodies the close-position handler is called with: symbol and environment
\* present or not, and a size that is missing, a text or a number.
CloseBodies ==
  [symbol : { None, Some(S_BTC), Some(<< "b", "t", "c" >>) },
   environment : { None, Some(S_mainnet), Some(S_testnet) },
   size : { None, Some(StrValue(<< "0", ".", "5" >>)), Some(StrValue(<< "-", "0", ".", "5" >>)),
            Some(StrValue(<< "0" >>)), Some(StrValue(<< "a", "b", "c" >>)),
            Some(StrValue(S_Infinity)), Some(StrValue(<< >>)),
            Some(NumValue(Num(FALSE, << "1", "5" >>, 1))),
            Some(NumValue(Num(TRUE, << "1", "5" >>, 1))),
            Some(NumValue(Num(FALSE, << "0" >>, 0))) }]

\* schema.safeParse(body): symbol is a text of one character or more, environment
\* is mainnet or testnet and testnet when missing, size is optional.
closeSchema(body) ==
  IF body.symbol = None \/ body.symbol[1] = << >>
  THEN [success |-> FALSE, data |-> << >>]
  ELSE [success |-> TRUE,
        data |-> [symbol |-> body.symbol[1],
                  environment |-> IF body.environment = None THEN S_testnet
                                  ELSE body.environment[1],
                  size |-> body.size]]

\* The size of the position of the symbol in a fetched state, null (None) when
\* the fetch threw or the state holds no finite size for it.
closeFetchedSize(result, symbol) ==
  IF result.threw THEN None
  ELSE LET data == result.value.data
           positions == IF data = None \/ data[1].assetPositions = None THEN << >>
                        ELSE data[1].assetPositions[1]
           target == toUpperCase(symbol)
           Hits == { k \in 1..Len(positions) :
                       positions[k].coin # None /\ toUpperCase(positions[k].coin[1]) = target }
           pos == IF Hits = {} THEN None
                  ELSE Some(positions[CHOOSE k \in Hits : \A j \in Hits : k <= j])
           raw == IF pos = None THEN None
                  ELSE IF pos[1].szi # None THEN pos[1].szi
                  ELSE IF pos[1].position = None THEN None
                  ELSE pos[1].position[1].szi
           numeric == IF raw = None THEN None
                      ELSE IF raw[1].t = "number" THEN Some(raw[1].x)
                      ELSE IF raw[1].t = "string" /\ trim(raw[1].s) # << >>
                        THEN Some(parseFloat(raw[1].s))
                      ELSE None
       IN IF numeric # None /\ isFinite(numeric[1]) THEN numeric ELSE None

\* !currentSize || !Number.isFinite(currentSize) || currentSize === 0
closeNothingToClose(currentSize) ==
  currentSize = None \/ ~isFinite(currentSize[1]) \/ IsZero(currentSize[1])

\* A variant of closeSide that always sells.
closeSideSell(currentSize) == "sell"

\* const side = currentSize > 0 ? "sell" : "buy"
closeSide(currentSize) == IF IsPositive(currentSize) THEN "sell" ELSE "buy"

\* The order of the close-position handler.
closeOrder(symbol, environment, currentSize) ==
  [kind |-> "order", environment |-> environment,
   orders |-> << [symbol |-> symbol, side |-> closeSide(currentSize),
                  price |-> << "0" >>, size |-> NumberToString(abs(currentSize)),
                  tif |-> S_FrontendMarket, reduceOnly |-> TRUE] >>]

\* With the size at hand: the 400 answer, or the order call.
closeWithSize(c, currentSize) ==
  IF closeNothingToClose(currentSize)
  THEN Respond([c EXCEPT !.loc.sized = TRUE, !.loc.currentSize = currentSize], 400, FALSE)
  ELSE Issue([c EXCEPT !.loc.sized = TRUE, !.loc.currentSize = currentSize], "awaitOrder",
             closeOrder(c.loc.symbol, c.loc.environment, currentSize[1]))

\* Every action of a handler leaves the pipeline's variables alone.
HandlerStep(next) ==
  /\ call' = next
  /\ UNCHANGED << now, metaCache, inv, fetched, started >>

\* The request is parsed: a 400 answer, or the wallet call.
CloseParse ==
  /\ call.fn = "closePosition" /\ call.pc = "start"
  /\ \E parsed \in { closeSchema(call.arg) } :
       HandlerStep(
         IF ~parsed.success THEN Respond(call, 400, FALSE)
         ELSE Issue([call EXCEPT !.loc = [symbol |-> parsed.data.symbol,
                                          environment |-> parsed.data.environment,
                                          requestedSize |-> parsed.data.size,
                                          address |-> << >>, sized |-> FALSE,
                                          currentSize |-> None, entry |-> None]],
                    "awaitWallet",
                    [kind |-> "wallet", chain |-> chainOf(parsed.data.environment)]))

\* The wallet call returns: a requested size is parsed, and otherwise the state
\* is fetched; an error of the wallet call is answered with 500.
CloseWallet(result) ==
  /\ call.fn = "closePosition" /\ call.pc = "awaitWallet"
  /\ \E c \in { [call EXCEPT !.loc.address = IF result.threw THEN << >> ELSE result.value.address] } :
       HandlerStep(
         IF result.threw THEN Respond(call, 500, FALSE)
         ELSE IF c.loc.requestedSize # None
           THEN closeWithSize(c, Some(parseFloat(StringOf(c.loc.requestedSize[1]))))
         ELSE Issue(c, "awaitState",
                    [kind |-> "clearinghouseState", environment |-> c.loc.environment,
                     walletAddress |-> c.loc.address]))

\* The state fetch returns or throws.
CloseState(result) ==
  /\ call.fn = "closePosition" /\ call.pc = "awaitState"
  /\ HandlerStep(closeWithSize(call, closeFetchedSize(result, call.loc.symbol)))

\* The order call returns, and the audit record is written; or it throws, and
\* the error is answered with 500.
CloseOrder(result) ==
  /\ call.fn = "closePosition" /\ call.pc = "awaitOrder"
  /\ HandlerStep(
       IF result.threw THEN Respond(call, 500, FALSE)
       ELSE Issue([call EXCEPT !.loc.entry = Some(result.value)], "awaitStore",
                  [kind |-> "store", status |-> "submitted", action |-> "close",
                   at |-> now,
                   notional |-> NumberToString(abs(call.loc.currentSize[1])),
                   entryResponse |-> result.value]))

\* The store call returns, and the handler answers; an error is answered with 500.
CloseStore(result) ==
  /\ call.fn = "closePosition" /\ call.pc = "awaitStore"
  /\ HandlerStep(IF result.threw THEN Respond(call, 500, FALSE) ELSE Respond(call, 200, TRUE))

(***************************************************************************)
(* The SMA strategy handler and computeSmaFromGateway                      *)
(***************************************************************************)

BARS_TO_CHECK == 10

\* The number of closes of one average.
SMA_WINDOW == 200

\* A close of a bar: a finite price, or a value that is no finite number.
Price(v) == [cls |-> "finite", v |-> v]

NoPrice == [cls |-> "nan", v |-> 0]

Bar(close, c) == [close |-> close, c |-> c]

\* The bars of a sequence of prices.
BarsOf(prices) == [k \in 1..Len(prices) |-> Bar(Some(Price(prices[k])), None)]

\* The closes before the last bars: a flat market.
FlatCloses == Repeat(100, SMA_WINDOW + BARS_TO_CHECK - 4)

\* The last four closes: below, at or above the flat price.
LastCloses == [1..4 -> { 90, 100, 110 }]

\* The answers of the gateway: a failure, a body that is no JSON, a body without
\* bars, one bar too few, a bar without a finite close (one close too few), bars
\* with the close under the key c or under no key, and flat markets that end in
\* each of the last closes.
BarsResponses ==
  { [ok |-> FALSE, json |-> None],
    [ok |-> TRUE, json |-> None],
    [ok |-> TRUE, json |-> Some([bars |-> None])],
    [ok |-> TRUE, json |-> Some([bars |-> Some(BarsOf(Tail(FlatCloses) \o << 100, 100, 100, 110 >>))])],
    [ok |-> TRUE, json |-> Some([bars |-> Some(BarsOf(FlatCloses \o << 100, 100, 100 >>)
                                                \o << Bar(Some(NoPrice), None) >>)])],
    [ok |-> TRUE, json |-> Some([bars |-> Some(BarsOf(FlatCloses \o << 100, 100, 100 >>)
                                                \o << Bar(None, Some(Price(110))) >>)])],
    [ok |-> TRUE, json |-> Some([bars |-> Some(BarsOf(FlatCloses \o << 100, 100, 110 >>)
                                                \o << Bar(None, None) >>)])] }
  \cup { [ok |-> TRUE, json |-> Some([bars |-> Some(BarsOf(FlatCloses \o last))])] :
           last \in LastCloses }

\* (json?.bars ?? []).map((b) => b.close ?? b.c ?? 0).filter(Number.isFinite)
closesOf(json) ==
  LET bars == IF json = None \/ json[1].bars = None THEN << >> ELSE json[1].bars[1]
      mapped == [k \in 1..Len(bars) |->
                   IF bars[k].close # None THEN bars[k].close[1]
                   ELSE IF bars[k].c # None THEN bars[k].c[1]
                   ELSE Price(0)]
      finite == SelectSeq(mapped, LAMBDA p : p.cls = "finite")
  IN [k \in 1..Len(finite) |-> finite[k].v]

\* The sum of the closes first..last (positions from 1), by halves.
RECURSIVE SumOf(_, _, _)
SumOf(closes, first, last) ==
  IF first > last THEN 0
  ELSE IF first = last THEN closes[first]
  ELSE SumOf(closes, first, (first + last) \div 2)
         + SumOf(closes, ((first + last) \div 2) + 1, last)

\* The sample of one offset: the averages are compared as sums, a price p being
\* under the average of a window exactly when p * 200 is under its sum.
sampleAt(closes, offset) ==
  LET end == Len(closes) - offset
      latestPrice == closes[end]
      prevPrice == closes[end - 1]
      sumCurr == SumOf(closes, end - SMA_WINDOW + 1, end)
      sumPrev == SumOf(closes, end - SMA_WINDOW, end - 1)
  IN [offset |-> offset, latestPrice |-> latestPrice, prevPrice |-> prevPrice,
      sumCurr |-> sumCurr, sumPrev |-> sumPrev,
      crossedUp |-> prevPrice * SMA_WINDOW <= sumPrev /\ latestPrice * SMA_WINDOW > sumCurr,
      crossedDown |-> prevPrice * SMA_WINDOW < sumPrev /\ latestPrice * SMA_WINDOW < sumCurr]

\* computeSmaFromGateway: the samples, the most recent first, or an error.
computeSmaFromGateway(res) ==
  LET closes == closesOf(res.json)
  IN IF ~res.ok \/ Len(closes) < SMA_WINDOW + BARS_TO_CHECK
     THEN [threw |-> TRUE, samples |-> << >>]
     ELSE [threw |-> FALSE,
           samples |-> [k \in 1..BARS_TO_CHECK |-> sampleAt(closes, k - 1)]]

\* A variant of selectSignal that takes the most recent sample.
selectSignalLatest(samples) == samples[1]

\* samples.find((s) => s.crossedUp || s.crossedDown) ?? samples[0]
selectSignal(samples) ==
  LET Crossed == { k \in 1..Len(samples) : samples[k].crossedUp \/ samples[k].crossedDown }
  IN IF Crossed = {} THEN samples[1]
     ELSE samples[CHOOSE k \in Crossed : \A j \in Crossed : k <= j]

\* s.startsWith(prefix)
startsWith(s, prefix) == Len(s) >= Len(prefix) /\ SubSeq(s, 1, Len(prefix)) = prefix

\* The symbol of the strategy's profile.
S_BTC_USDC == << "B", "T", "C", "-", "U", "S", "D", "C" >>

\* The size of the position of the symbol in the asset positions:
\* Number.parseFloat(String(szi ?? position.szi ?? 0)) || 0.
smaCurrentSize(positions, symbol) ==
  LET base == toUpperCase(SplitHead(symbol, "-"))
      CoinOf(p) == IF p.coin # None THEN p.coin
                   ELSE IF p.position # None THEN p.position[1].coin ELSE None
      Hits == { k \in 1..Len(positions) :
                  CoinOf(positions[k]) # None
                    /\ startsWith(toUpperCase(CoinOf(positions[k])[1]), base) }
      pos == IF Hits = {} THEN None
             ELSE Some(positions[CHOOSE k \in Hits : \A j \in Hits : k <= j])
      raw == IF pos = None THEN Some(NumValue(Num(FALSE, << "0" >>, 0)))
             ELSE IF pos[1].szi # None THEN pos[1].szi
             ELSE IF pos[1].position # None /\ pos[1].position[1].szi # None
               THEN pos[1].position[1].szi
             ELSE Some(NumValue(Num(FALSE, << "0" >>, 0)))
      parsed == parseFloat(StringOf(raw[1]))
  IN IF parsed.cls = "nan" \/ IsZero(parsed) THEN Num(FALSE, << "0" >>, 0) ELSE parsed

\* The orders of one run: the closing sell of a long position on a cross down,
\* the opening buy on a cross up without a long position.
smaActions(signal, currentSize, symbol, size) ==
  LET hasLong == IsPositive(currentSize)
      crossedUp == signal.crossedUp
      crossedDown == hasLong /\ signal.crossedDown
  IN (IF crossedDown /\ hasLong
      THEN << [symbol |-> symbol, side |-> "sell", mid |-> signal.latestPrice,
               size |-> StringOf(NumValue(abs(currentSize))),
               tif |-> S_FrontendMarket, reduceOnly |-> TRUE] >>
      ELSE << >>)
     \o (IF crossedUp /\ ~hasLong
         THEN << [symbol |-> symbol, side |-> "buy", mid |-> signal.latestPrice,
                  size |-> size, tif |-> S_FrontendMarket, reduceOnly |-> FALSE] >>
         ELSE << >>)

\* The audit record of a run with n order calls.
smaRecord(n, at) ==
  [kind |-> "store", status |-> IF n > 0 THEN "submitted" ELSE "info",
   action |-> IF n > 0 THEN "order" ELSE "noop", at |-> at, actionsTaken |-> n]

\* The handler starts: the wallet call.
SmaStart ==
  /\ call.fn = "sma" /\ call.pc = "start"
  /\ HandlerStep(Issue([call EXCEPT !.loc = [symbol |-> S_BTC_USDC, size |-> << "1", "0", "0" >>,
                                            address |-> << >>, samples |-> << >>,
                                            signal |-> << >>, sized |-> FALSE,
                                            currentSize |-> NaN, pending |-> << >>]],
                       "awaitWallet", [kind |-> "wallet", chain |-> chainOf(S_testnet)]))

\* The wallet call returns, and the bars are fetched.
SmaWallet(result) ==
  /\ call.fn = "sma" /\ call.pc = "awaitWallet"
  /\ HandlerStep(IF result.threw THEN Reject(call)
                 ELSE Issue([call EXCEPT !.loc.address = result.value.address],
                            "awaitBars", [kind |-> "bars", symbol |-> SplitHead(call.loc.symbol, "-")]))

\* The bars arrive: the samples are computed and the signal is selected, and the
\* state is fetched.
SmaBars(res) ==
  /\ call.fn = "sma" /\ call.pc = "awaitBars"
  /\ \E sma \in { computeSmaFromGateway(res) } :
       HandlerStep(IF sma.threw THEN Reject(call)
                   ELSE Issue([call EXCEPT !.loc.samples = sma.samples,
                                           !.loc.signal = selectSignal(sma.samples)],
                              "awaitState",
                              [kind |-> "clearinghouseState", environment |-> S_testnet,
                               walletAddress |-> call.loc.address]))

\* The state arrives: the orders of the run are decided and the first is placed,
\* or the audit record is written when there is none.
SmaState(result) ==
  /\ call.fn = "sma" /\ call.pc = "awaitState"
  /\ IF result.threw \/ result.value.data = None \/ result.value.data[1].assetPositions = None
     THEN HandlerStep(Reject(call))
     ELSE \E currentSize \in { smaCurrentSize(result.value.data[1].assetPositions[1], call.loc.symbol) } :
          \E actions \in { smaActions(call.loc.signal, currentSize, call.loc.symbol, call.loc.size) } :
          \E c \in { [call EXCEPT !.loc.sized = TRUE, !.loc.currentSize = currentSize,
                                  !.loc.pending = actions] } :
            HandlerStep(IF actions = << >> THEN Issue(c, "awaitStore", smaRecord(0, now))
                        ELSE Issue([c EXCEPT !.loc.pending = Tail(actions)], "awaitOrder",
                                   [kind |-> "order", environment |-> S_testnet,
                                    orders |-> << Head(actions) >>]))

\* An order call returns: the next order is placed, or the audit record is
\* written after the last.
SmaOrder(result) ==
  /\ call.fn = "sma" /\ call.pc = "awaitOrder"
  /\ HandlerStep(
       IF result.threw THEN Reject(call)
       ELSE IF call.loc.pending # << >>
         THEN Issue([call EXCEPT !.loc.pending = Tail(@)], "awaitOrder",
                    [kind |-> "order", environment |-> S_testnet,
                     orders |-> << Head(call.loc.pending) >>])
       ELSE Issue(call, "awaitStore",
                  smaRecord(Cardinality({ k \in 1..Len(call.effects) : call.effects[k].kind = "order" }), now)))

\* The store call returns, and the handler answers.
SmaStore(result) ==
  /\ call.fn = "sma" /\ call.pc = "awaitStore"
  /\ HandlerStep(IF result.threw THEN Reject(call) ELSE Respond(call, 200, TRUE))

(***************************************************************************)
(* The delta-neutral hedge handler. Sizes are counted in millionths of a   *)
(* base unit and funding rates in millionths per hour.                     *)
(***************************************************************************)

\* profile.rebalanceThreshold, 0.001 base units.
rebalanceThreshold == 1000

\* profile.minFundingRate.
minFundingRate == 0

\* profile.fundingTargetRate, 0.0001 per hour.
fundingTargetRate == 100

\* The millionths of one base unit.
SizeUnit == 1000000

AbsInt(n) == IF n < 0 THEN -n ELSE n

MinInt(a, b) == IF a < b THEN a ELSE b

MaxInt(a, b) == IF a > b THEN a ELSE b

RECURSIVE Pow10(_)
Pow10(n) == IF n = 0 THEN 1 ELSE 10 * Pow10(n - 1)

\* A variant of normalizeSize that never rounds to zero.
normalizeSizeAwayFromZero(size, decimals) ==
  IF decimals = None THEN size
  ELSE LET q == SizeUnit \div Pow10(decimals[1])
           rounded == ((2 * size + q) \div (2 * q)) * q
       IN IF rounded = 0 /\ size # 0 THEN (IF size > 0 THEN q ELSE -q) ELSE rounded

\* normalizeSize(size, decimals): Math.round(size * 10 ** decimals) / 10 ** decimals,
\* for up to six decimals; Math.round rounds a half up.
normalizeSize(size, decimals) ==
  IF decimals = None THEN size
  ELSE LET q == SizeUnit \div Pow10(decimals[1])
       IN ((2 * size + q) \div (2 * q)) * q

\* What one run reads: the funding rate (None when the statistics are missing),
\* the spot and the perp size, and the size decimals of the perp asset.
HedgeReadingValues ==
  [fundingRate : { None, Some(-50), Some(0), Some(50), Some(100), Some(200) },
   spotSize : { 0, 2000, 500000 },
   perpSize : { 0, -2000, -500000, 300000 },
   perpDecimals : { None, Some(0), Some(2), Some(5) }]

\* The plan of one run, from the readings: lines 142 to 157 with no spot target.
hedgePlan(r) ==
  LET fundingEligible == r.fundingRate # None /\ r.fundingRate[1] >= minFundingRate
      span == fundingTargetRate - minFundingRate
      \* fundingScale is scaleParts / span
      scaleParts == IF fundingEligible /\ fundingTargetRate > minFundingRate
                    THEN MinInt(span, r.fundingRate[1] - minFundingRate)
                    ELSE IF fundingEligible THEN span ELSE 0
      projectedSpot == r.spotSize
      targetPerp == IF fundingEligible
                    THEN -((projectedSpot * MaxInt(0, MinInt(span, scaleParts))) \div span)
                    ELSE 0
      rawAdjustment == targetPerp - r.perpSize
      needsRebalance == AbsInt(rawAdjustment) > rebalanceThreshold
      normalizedPerpAdj == IF needsRebalance THEN normalizeSize(rawAdjustment, r.perpDecimals)
                           ELSE 0
  IN [targetPerp |-> targetPerp, rawAdjustment |-> rawAdjustment,
      needsRebalance |-> needsRebalance, normalizedPerpAdj |-> normalizedPerpAdj,
      effectivePerpRebalance |-> needsRebalance /\ normalizedPerpAdj # 0]

\* The audit record of the run.
hedgeRecord(plan, at) ==
  [kind |-> "store", status |-> IF plan.needsRebalance THEN "submitted" ELSE "info",
   action |-> IF plan.needsRebalance THEN "order" ELSE "noop", at |-> at,
   needsRebalance |-> plan.effectivePerpRebalance, adjustment |-> plan.normalizedPerpAdj]

\* The handler starts: the wallet call.
HedgeStart ==
  /\ call.fn = "deltaNeutral" /\ call.pc = "start"
  /\ HandlerStep(Issue([call EXCEPT !.loc = [address |-> << >>, planned |-> FALSE,
                                            plan |-> hedgePlan([fundingRate |-> None, spotSize |-> 0,
                                                                perpSize |-> 0, perpDecimals |-> None])]],
                       "awaitWallet", [kind |-> "wallet", chain |-> chainOf(S_testnet)]))

\* The wallet call returns, and the statistics, the states and the decimals are
\* read.
HedgeWallet(result) ==
  /\ call.fn = "deltaNeutral" /\ call.pc = "awaitWallet"
  /\ HandlerStep(IF result.threw THEN Reject(call)
                 ELSE Issue([call EXCEPT !.loc.address = result.value.address],
                            "awaitReadings", [kind |-> "readings", user |-> result.value.address]))

\* The readings arrive (or a state fetch throws): the perp order is placed when
\* the normalized adjustment is not zero, and the audit record is written
\* otherwise.
HedgeReadings(result) ==
  /\ call.fn = "deltaNeutral" /\ call.pc = "awaitReadings"
  /\ \E plan \in { hedgePlan(result.value) } :
     \E c \in { [call EXCEPT !.loc.planned = TRUE, !.loc.plan = plan] } :
       HandlerStep(
         IF result.threw THEN Reject(call)
         ELSE IF plan.effectivePerpRebalance
           THEN Issue(c, "awaitOrder",
                      [kind |-> "order", environment |-> S_testnet,
                       orders |-> << [symbol |-> S_BTC,
                                      side |-> IF plan.normalizedPerpAdj > 0 THEN "buy" ELSE "sell",
                                      size |-> AbsInt(plan.normalizedPerpAdj),
                                      reduceOnly |-> FALSE] >>])
         ELSE Issue(c, "awaitStore", hedgeRecord(plan, now)))

\* The order call returns, and the audit record is written.
HedgeOrder(result) ==
  /\ call.fn = "deltaNeutral" /\ call.pc = "awaitOrder"
  /\ HandlerStep(IF result.threw THEN Reject(call)
                 ELSE Issue(call, "awaitStore", hedgeRecord(call.loc.plan, now)))

\* The store call returns, and the handler answers with the action of the run.
HedgeStore(result) ==
  /\ call.fn = "deltaNeutral" /\ call.pc = "awaitStore"
  /\ HandlerStep(
       IF result.threw THEN Reject(call)
       ELSE [call EXCEPT !.pc = "responded", !.done = TRUE,
                         !.response = Some([status |-> 200, ok |-> TRUE,
                                            action |-> IF call.loc.plan.needsRebalance
                                                       THEN "order" ELSE "noop",
                                            needsRebalance |-> call.loc.plan.effectivePerpRebalance])])

HedgeReadingResults ==
  { Thrown("Error", [fundingRate |-> None, spotSize |-> 0, perpSize |-> 0, perpDecimals |-> None]) }
    \cup { Returned(v) : v \in HedgeReadingValues }

(***************************************************************************)
(* withdrawFromHyperliquid                                                 *)
(***************************************************************************)

\* Number(text) for texts without an exponent part: blanks around the text are
\* dropped, the empty text is 0, and a text that is not as a whole a signed
\* decimal or Infinity is NaN.
NumberOf(s) ==
  LET t == trim(s)
      signed == t # << >> /\ t[1] \in { "-", "+" }
      neg == t # << >> /\ t[1] = "-"
      u == IF signed THEN Tail(t) ELSE t
      int == SplitHead(u, ".")
      tail == SplitTail(u, ".")
      frac == IF tail = None THEN << >> ELSE tail[1]
      all == int \o frac
  IN IF t = << >> THEN Num(FALSE, << "0" >>, 0)
     ELSE IF u = S_Infinity THEN [Infinity EXCEPT !.neg = neg]
     ELSE IF all = << >> \/ \E k \in 1..Len(all) : ~IsDigit(all[k]) THEN NaN
     ELSE DecimalOf(neg, int, frac)

S_Mainnet == << "M", "a", "i", "n", "n", "e", "t" >>

S_Testnet == << "T", "e", "s", "t", "n", "e", "t" >>

\* HL_CHAIN_LABEL
HL_CHAIN_LABEL(environment) == IF environment = S_mainnet THEN S_Mainnet ELSE S_Testnet

\* The options withdrawFromHyperliquid is called with.
WithdrawOptions ==
  [environment : { S_mainnet, S_testnet },
   amount : { << "2", ".", "5" >>, << " ", "1", "0", " " >>, << "0" >>, << "-", "1" >>, << >>,
              << "a", "b", "c" >>, << "5", "x" >>, S_Infinity },
   destination : { VaultA },
   wallet : [account : BOOLEAN, walletClient : BOOLEAN]]

\* BigInt(n) of a natural number, and Number(b) of a bigint.
BigInt(n) == BigIntValue(FALSE, NatToString(n))

NumberOfBigInt(b) == IF b.x.neg THEN -DigitsToNat(b.x.digits) ELSE DigitsToNat(b.x.digits)

\* A variant of withdrawNonce that takes the next millisecond.
withdrawNonceNext(time) == NumberOfBigInt(time) + 1

\* const nonce = Number(time)
withdrawNonce(time) == NumberOfBigInt(time)

\* The call throws an error.
Fail(c, error) == [c EXCEPT !.pc = "thrown", !.out = error, !.done = TRUE]

\* The call starts: the amount and the wallet are checked, the clock is read and
\* the message is given to the wallet client to sign.
WithdrawStart ==
  /\ call.fn = "withdrawFromHyperliquid" /\ call.pc = "start"
  /\ \E parsedAmount \in { NumberOf(call.arg.amount) } :
     \E time \in { BigInt(now) } :
       HandlerStep(
         IF ~isFinite(parsedAmount) \/ ~IsPositive(parsedAmount)
         THEN Fail(call, "Withdraw amount must be a positive number.")
         ELSE IF ~call.arg.wallet.account \/ ~call.arg.wallet.walletClient
         THEN Fail(call, "Wallet with signing capability is required for withdraw.")
         ELSE Issue([call EXCEPT !.loc = [parsedAmount |-> parsedAmount, time |-> time,
                                          nonce |-> withdrawNonce(time),
                                          destination |-> normalizeHex(call.arg.destination)]],
                    "awaitSign",
                    [kind |-> "sign",
                     message |-> [hyperliquidChain |-> HL_CHAIN_LABEL(call.arg.environment),
                                  destination |-> normalizeHex(call.arg.destination),
                                  amount |-> NumberToString(parsedAmount),
                                  time |-> time]]))

\* The signing call returns the signature text, which is split, and the payload
\* is posted; or it throws.
WithdrawSigned(result) ==
  /\ call.fn = "withdrawFromHyperliquid" /\ call.pc = "awaitSign"
  /\ \E signature \in { splitSignature(result.value) } :
       HandlerStep(
         IF result.threw THEN Fail(call, "SignerThrew")
         ELSE IF ~signature.ok THEN Fail(call, "Invalid signature returned by wallet client.")
         ELSE Issue(call, "awaitPost",
                    [kind |-> "post",
                     endpoint |-> API_BASES(call.arg.environment) \o S_exchangePath,
                     payload |-> [action |-> [type |-> "withdraw3",
                                              hyperliquidChain |-> HL_CHAIN_LABEL(call.arg.environment),
                                              destination |-> call.loc.destination,
                                              amount |-> NumberToString(call.loc.parsedAmount),
                                              time |-> call.loc.nonce],
                                  nonce |-> call.loc.nonce,
                                  signature |-> signature]]))

\* The signing results and the answers of the exchange.
WithdrawSignResults ==
  { Thrown("Error", << >>) } \cup { Returned(sig) : sig \in SignatureChoices }

WithdrawResponses ==
  { [ok |-> TRUE, status |-> Some("ok")], [ok |-> TRUE, status |-> Some("err")],
    [ok |-> FALSE, status |-> Some("ok")], [ok |-> TRUE, status |-> None] }

\* The answer of the exchange: the result with the nonce, or an error.
WithdrawResponse(response) ==
  /\ call.fn = "withdrawFromHyperliquid" /\ call.pc = "awaitPost"
  /\ HandlerStep(
       IF ~response.ok \/ response.status # Some("ok")
       THEN Fail(call, "Hyperliquid withdraw failed")
       ELSE [call EXCEPT !.pc = "returned", !.done = TRUE,
                         !.response = Some([status |-> 200, ok |-> TRUE, nonce |-> call.loc.nonce])])

(***************************************************************************)
(* The specification of the handlers: one run of one handler               *)
(***************************************************************************)

InitTools ==
  /\ now \in TimesAfter(MaxTicks)
  /\ metaCache = [k \in {} |-> 0]
  /\ inv = [p \in Procs |-> IdleInv]
  /\ fetched = {}
  /\ started = 0
  /\ call \in { Run("closePosition", body) : body \in CloseBodies }
       \cup { Run("sma", << >>), Run("deltaNeutral", << >>) }
       \cup { Run("withdrawFromHyperliquid", o) : o \in WithdrawOptions }

NextTools ==
  \/ CloseParse
  \/ \E result \in WalletResults : CloseWallet(result)
  \/ \E result \in StateResults : CloseState(result)
  \/ \E result \in OrderResults : CloseOrder(result)
  \/ \E result \in StoreResults : CloseStore(result)
  \/ SmaStart
  \/ \E result \in WalletResults : SmaWallet(result)
  \/ \E res \in BarsResponses : SmaBars(res)
  \/ \E result \in StateResults : SmaState(result)
  \/ \E result \in OrderResults : SmaOrder(result)
  \/ \E result \in StoreResults : SmaStore(result)
  \/ HedgeStart
  \/ \E result \in WalletResults : HedgeWallet(result)
  \/ \E result \in HedgeReadingResults : HedgeReadings(result)
  \/ \E result \in OrderResults : HedgeOrder(result)
  \/ \E result \in StoreResults : HedgeStore(result)
  \/ WithdrawStart
  \/ \E result \in WithdrawSignResults : WithdrawSigned(result)
  \/ \E response \in WithdrawResponses : WithdrawResponse(response)

SpecTools == InitTools /\ [][NextTools]_vars

(***************************************************************************)
(* Properties                                                              *)
(***************************************************************************)

\* The stages of one run, in order.
StageOrder == << "universe", "encode", "hash", "sign", "post", "validate" >>

\* The options invocation p runs with.
OptsOf(p) == OptionChoices[inv[p].opt]

\* The positions at which an invocation holds a universe.
HoldsUniverse(p) ==
  \/ inv[p].pc \in { "haveUniverse", "awaitSign", "awaitPost", "returned" }
  \/ inv[p].pc = "thrown" /\ Len(inv[p].stages) >= 2

\* C1: in every run the stages are entered in the order universe resolution,
\* action encoding, hash computation, signing call, POST, response validation,
\* none skipped; a POST is issued only after the signing call has returned a
\* signature.
C1_StagesInOrder ==
  \A p \in Procs :
    /\ Len(inv[p].stages) <= Len(StageOrder)
    /\ inv[p].stages = SubSeq(StageOrder, 1, Len(inv[p].stages))
    /\ inv[p].posts > 0 =>
         /\ inv[p].signature.ok
         /\ inv[p].signCalls = 1
         /\ SubSeq(inv[p].stages, 1, 5) = SubSeq(StageOrder, 1, 5)
    /\ inv[p].signCalls > 0 => SubSeq(inv[p].stages, 1, 4) = SubSeq(StageOrder, 1, 4)

\* A run that went through all six stages and returned.
C1_Witness ==
  \E p \in Procs : inv[p].pc = "returned" /\ inv[p].stages = StageOrder /\ inv[p].posts = 1

\* Whether some universe entry carries the base of the symbol.
KnownSymbol(symbol, universe) ==
  \E k \in 1..Len(universe) :
    toUpperCase(universe[k]) = toUpperCase(trim(SplitHead(symbol, "-")))

\* Whether every number among the prices and sizes of the intent is finite.
FiniteIntent(intent) ==
  /\ intent.price.t = "number" => intent.price.x.cls = "finite"
  /\ intent.size.t = "number" => intent.size.x.cls = "finite"
  /\ (intent.trigger # None /\ intent.trigger[1].triggerPx.t = "number")
       => intent.trigger[1].triggerPx.x.cls = "finite"

\* C2: a failed stage ends the run with its error and no later stage is
\* attempted: a failed metadata fetch leaves encoding, signing and POST undone; an
\* unknown symbol at any position or a non-finite number leaves signing and POST
\* undone; a failed signing call leaves the POST undone.
C2_FailureAborts ==
  \A p \in Procs :
    /\ inv[p].err # "none" <=> inv[p].pc = "thrown"
    /\ inv[p].err = "MetadataUnavailable" =>
         inv[p].stages = << "universe" >> /\ inv[p].signCalls = 0 /\ inv[p].posts = 0
    /\ inv[p].err \in { "UnknownAsset", "NonFinite" } =>
         inv[p].stages = << "universe", "encode" >> /\ inv[p].signCalls = 0 /\ inv[p].posts = 0
    /\ inv[p].err \in { "SignerThrew", "InvalidSignature" } =>
         inv[p].stages = SubSeq(StageOrder, 1, 4) /\ inv[p].posts = 0
    /\ (HoldsUniverse(p) /\ inv[p].pc # "haveUniverse"
          /\ \E k \in 1..Len(OptsOf(p).orders) :
               \/ ~KnownSymbol(OptsOf(p).orders[k].symbol, inv[p].universe)
               \/ ~FiniteIntent(OptsOf(p).orders[k]))
         => inv[p].pc = "thrown" /\ inv[p].signCalls = 0 /\ inv[p].posts = 0

\* A batch whose second symbol is unknown has failed.
C2_Witness ==
  \E p \in Procs :
    /\ inv[p].pc = "thrown" /\ inv[p].err = "UnknownAsset"
    /\ Len(OptsOf(p).orders) = 2
    /\ KnownSymbol(OptsOf(p).orders[1].symbol, inv[p].universe)
    /\ ~KnownSymbol(OptsOf(p).orders[2].symbol, inv[p].universe)

\* C3: a run that ends with a validation failure (no signer, empty batch,
\* non-finite number) has made no network call, the metadata fetch included.
C3_ValidationBeforeNetwork ==
  \A p \in Procs :
    inv[p].err \in { "NoSigner", "EmptyBatch", "NonFinite" } =>
      inv[p].infoFetches = 0 /\ inv[p].signCalls = 0 /\ inv[p].posts = 0

\* The byte of weight 256^k of a natural number.
RECURSIVE ByteOfWeight(_, _)
ByteOfWeight(value, k) ==
  IF k = 0 THEN value % 256 ELSE ByteOfWeight(value \div 256, k - 1)

\* The byte written as the k-th pair of hexadecimal characters after "0x".
AddressByte(address, k) == HexVal(address[2 * k + 1]) * 16 + HexVal(address[2 * k + 2])

\* C4: the bytes createL1ActionHash hashes are the canonical action bytes, then
\* the nonce in 8 bytes with the most significant first, then one vault marker
\* (1 with a vault address, 0 without), then the 20 bytes of the vault address
\* exactly when the marker is 1, then, exactly when an expiry is given, one
\* marker byte of fixed value and the expiry in 8 bytes with the most significant
\* first; without an expiry nothing follows the vault part.
C4_PreimageLayout ==
  (call.fn = "createL1ActionHash" /\ call.done /\ call.out.ok) =>
    LET pre == call.out.hash.keccak256
        actionBytes == encodeMsgpack(call.arg.action)
        n == Len(actionBytes)
        hasVault == call.arg.vaultAddress # None
        vaultLen == IF hasVault THEN 20 ELSE 0
        hasExpiry == call.arg.expiresAfter # None
        m == n + 9 + vaultLen
    IN /\ Len(pre) >= m
       /\ SubSeq(pre, 1, n) = actionBytes
       /\ \A k \in 1..8 : pre[n + k] = ByteOfWeight(call.arg.nonce, 8 - k)
       /\ \A k \in (n + 1)..Len(pre) : pre[k] \in 0..255
       /\ pre[n + 9] = (IF hasVault THEN 1 ELSE 0)
       /\ hasVault =>
            \A k \in 1..20 : pre[n + 9 + k] = AddressByte(call.arg.vaultAddress[1], k)
       /\ IF hasExpiry
          THEN /\ Len(pre) = m + 9
               /\ pre[m + 1] = 0
               /\ \A k \in 1..8 :
                    pre[m + 1 + k] = ByteOfWeight(call.arg.expiresAfter[1], 8 - k)
          ELSE Len(pre) = m

\* A hash over a vault address and an expiry with a nonce of more than one byte.
C4_Witness ==
  /\ call.fn = "createL1ActionHash" /\ call.done /\ call.out.ok
  /\ call.arg.vaultAddress = Some(VaultZ)
  /\ call.arg.expiresAfter # None /\ call.arg.expiresAfter[1] > 255
  /\ call.arg.nonce = 256

\* C5: two calls of createL1ActionHash with equal inputs give equal outputs, and
\* two calls whose inputs differ in exactly one of action, nonce, vault address
\* and expiry hash different bytes and give different outputs.
C5_HashSeparatesInputs ==
  (call.fn = "createL1ActionHashTwice" /\ call.done) =>
    /\ call.arg[1] = call.arg[2] => call.out[1] = call.out[2]
    /\ DiffCount(call.arg[1], call.arg[2]) = 1 =>
         /\ call.out[1].ok /\ call.out[2].ok
         /\ call.out[1].hash.keccak256 # call.out[2].hash.keccak256
         /\ call.out[1].hash # call.out[2].hash

\* Two calls that differ only in the presence of the expiry.
C5_Witness ==
  /\ call.fn = "createL1ActionHashTwice" /\ call.done
  /\ call.arg[1].expiresAfter = None /\ call.arg[2].expiresAfter = Some(0)
  /\ call.arg[1].action = call.arg[2].action
  /\ call.arg[1].nonce = call.arg[2].nonce
  /\ call.arg[1].vaultAddress = call.arg[2].vaultAddress
  /\ call.out[1].hash # call.out[2].hash

\* The recovery byte of a signature text of 65 bytes.
RawRecoveryByte(signature) == HexVal(signature[131]) * 16 + HexVal(signature[132])

\* C6: for every signature splitSignature accepts the returned v is 27 or 28; a
\* raw recovery byte below 27 has 27 added, and a value that is then neither 27
\* nor 28 becomes 27 when odd and 28 when even.
C6_RecoveryIs27Or28 ==
  (call.fn = "splitSignature" /\ call.done /\ call.out.ok) =>
    /\ call.out.v \in { 27, 28 }
    /\ (Len(call.arg) = 132 /\ IsHexDigit(call.arg[131]) /\ IsHexDigit(call.arg[132])) =>
         LET raw == RawRecoveryByte(call.arg)
             w == IF raw < 27 THEN raw + 27 ELSE raw
         IN call.out.v = (IF w \in { 27, 28 } THEN w ELSE IF w % 2 = 1 THEN 27 ELSE 28)

\* A signature with raw recovery byte 36 was split.
C6_Witness ==
  /\ call.fn = "splitSignature" /\ call.done /\ call.out.ok
  /\ Len(call.arg) = 132 /\ RawRecoveryByte(call.arg) = 36
  /\ call.out.v = 28

\* C8: under every interleaving of concurrent universe resolutions the cache
\* entry of a key is the timestamp and the universe of one and the same stored
\* response, and every universe an invocation holds is the universe of one
\* response fetched for its key.
C8_CacheNeverTorn ==
  /\ \A k \in DOMAIN metaCache :
       [key |-> k, at |-> metaCache[k].fetchedAt, universe |-> metaCache[k].universe] \in fetched
  /\ \A p \in Procs :
       HoldsUniverse(p) =>
         \E f \in fetched : f.key = inv[p].key /\ f.universe = inv[p].universe

\* Two invocations for one key both found the cache empty and were answered with
\* different universes.
C8_Witness ==
  /\ inv["p1"].key = inv["p2"].key
  /\ \A p \in Procs : HoldsUniverse(p) /\ inv[p].infoFetches = 1 /\ inv[p].age < 0
  /\ inv["p1"].universe # inv["p2"].universe

\* The part of the symbol before the first "-".
BaseOf(symbol) ==
  IF \E k \in 1..Len(symbol) : symbol[k] = "-"
  THEN SubSeq(symbol, 1, (CHOOSE k \in 1..Len(symbol) :
                            symbol[k] = "-" /\ \A j \in 1..(k - 1) : symbol[j] # "-") - 1)
  ELSE symbol

\* Whether t is s without the white space at its ends.
IsTrimOf(t, s) ==
  /\ t = << >> \/ (t[1] # " " /\ t[Len(t)] # " ")
  /\ \E i \in 0..Len(s) :
       /\ i + Len(t) <= Len(s)
       /\ t = SubSeq(s, i + 1, i + Len(t))
       /\ \A k \in (1..i) \cup ((i + Len(t) + 1)..Len(s)) : s[k] = " "

\* Whether the k-th universe entry is named target, letter case aside.
NamedLike(universe, k, target) == toUpperCase(universe[k]) = toUpperCase(target)

\* C9 as stated: resolveAssetIndex returns the position of the entry whose name
\* equals, letter case aside, the part of the symbol before the first "-", and
\* fails exactly when no entry does.
C9_MatchesBase ==
  (call.fn = "resolveAssetIndex" /\ call.done) =>
    LET base == BaseOf(call.arg.symbol)
        universe == call.arg.universe
    IN /\ call.out.ok <=> \E k \in 1..Len(universe) : NamedLike(universe, k, base)
       /\ call.out.ok => NamedLike(universe, call.out.index + 1, base)

\* C9 amended: resolveAssetIndex returns the position, counted from 0, of the
\* first entry whose name equals, letter case aside, the part of the symbol
\* before the first "-" with the white space at its ends removed, and fails
\* exactly when no entry does.
C9_MatchesTrimmedBase ==
  (call.fn = "resolveAssetIndex" /\ call.done) =>
    LET universe == call.arg.universe
    IN \A i \in 0..Len(call.arg.symbol), j \in 0..Len(call.arg.symbol) :
         LET t == SubSeq(call.arg.symbol, i + 1, j)
         IN IsTrimOf(t, BaseOf(call.arg.symbol)) =>
              /\ call.out.ok <=> \E k \in 1..Len(universe) : NamedLike(universe, k, t)
              /\ call.out.ok =>
                   /\ call.out.index + 1 \in 1..Len(universe)
                   /\ NamedLike(universe, call.out.index + 1, t)
                   /\ \A k \in 1..call.out.index : ~NamedLike(universe, k, t)

\* A symbol in lower case with white space around its base was resolved.
C9_Witness ==
  /\ call.fn = "resolveAssetIndex" /\ call.done /\ call.out.ok
  /\ call.arg.universe = Universe2 /\ call.out.index = 1
  /\ BaseOf(call.arg.symbol) # trim(BaseOf(call.arg.symbol))
  /\ toUpperCase(call.arg.symbol) # call.arg.symbol

\* C10: the t field of every encoded order has exactly one key, limit or trigger:
\* for an intent with a trigger the trigger specification isMarket, triggerPx,
\* tpsl and no time-in-force, otherwise the limit specification with the
\* time-in-force.
C10_LimitOrTrigger ==
  (call.fn = "prepareOrder" /\ call.done /\ call.out.ok) =>
    LET t == Get(call.out.order, S_t)
    IN /\ HasKey(call.out.order, S_t)
       /\ Len(t.m) = 1
       /\ HasKey(t, S_limit) # HasKey(t, S_trigger)
       /\ IF call.arg.trigger # None
          THEN /\ HasKey(t, S_trigger)
               /\ Keys(Get(t, S_trigger)) = << S_isMarket, S_triggerPx, S_tpsl >>
               /\ Get(Get(t, S_trigger), S_tpsl) = JsStr(call.arg.trigger[1].tpsl)
          ELSE /\ HasKey(t, S_limit)
               /\ Keys(Get(t, S_limit)) = << S_tif >>
               /\ Get(Get(t, S_limit), S_tif).t = "str"
               /\ call.arg.tif # None => Get(Get(t, S_limit), S_tif) = JsStr(call.arg.tif[1])

\* An intent with both a trigger and a time-in-force was encoded.
C10_Witness ==
  /\ call.fn = "prepareOrder" /\ call.done /\ call.out.ok
  /\ call.arg.trigger # None /\ call.arg.tif # None
  /\ HasKey(Get(call.out.order, S_t), S_trigger)

\* Five minutes, in milliseconds.
FiveMinutes == 5 * 60 * 1000

\* Whether invocation p found an entry younger than five minutes for its key.
FoundFresh(p) == inv[p].age >= 0 /\ inv[p].age < FiveMinutes

\* C7: a resolution that finds, for its key, an entry younger than five minutes
\* issues no metadata fetch; one that finds no entry or an entry of five minutes
\* or more issues exactly one, and the successful response replaces the universe
\* and the timestamp of the entry of that key.
C7_FetchOncePerTtl ==
  /\ [](\A p \in Procs :
          inv[p].stages # << >> =>
            inv[p].infoFetches = (IF FoundFresh(p) THEN 0 ELSE 1))
  /\ [][\A p \in Procs :
          (inv[p].pc = "awaitMeta" /\ inv'[p].pc = "haveUniverse") =>
            /\ inv[p].key \in DOMAIN metaCache'
            /\ metaCache'[inv[p].key] = [fetchedAt |-> now, universe |-> inv'[p].universe]
            /\ inv[p].key \in DOMAIN metaCache =>
                 metaCache[inv[p].key].fetchedAt + FiveMinutes <= metaCache'[inv[p].key].fetchedAt
            /\ \A k \in DOMAIN metaCache : k # inv[p].key => metaCache'[k] = metaCache[k]]_vars

\* A resolution found an entry of exactly five minutes, fetched, and the entry
\* was replaced by a different universe.
C7_Witness ==
  \E p \in Procs :
    /\ inv[p].pc = "haveUniverse" /\ inv[p].age = FiveMinutes /\ inv[p].infoFetches = 1
    /\ metaCache[inv[p].key].fetchedAt = now
    /\ metaCache[inv[p].key].universe = Universe2
    /\ \E f \in fetched : f.key = inv[p].key /\ f.at = 0 /\ f.universe = Universe1

\* Whether a value of the action holds undefined anywhere.
RECURSIVE HoldsUndefined(_)
HoldsUndefined(v) ==
  \/ v.t = "undef"
  \/ \E k \in 1..Len(v.m) : HoldsUndefined(v.m[k][2])

\* Whether invocation p has built its action.
HasAction(p) == inv[p].pc \in { "awaitSign", "awaitPost", "returned" } \/ inv[p].signCalls > 0

\* The encoded orders of invocation p.
OrdersOf(p) == Items(Get(inv[p].action, S_orders))

\* C11: an encoded order has the key c exactly when its intent supplied a client
\* id and the action has the key builder exactly when a builder fee was
\* supplied; no key of the action holds undefined.
C11_OptionalFieldsOmitted ==
  \A p \in Procs :
    HasAction(p) =>
      /\ HasKey(inv[p].action, S_builder) <=> OptsOf(p).builder # None
      /\ Len(OrdersOf(p)) = Len(OptsOf(p).orders)
      /\ \A k \in 1..Len(OrdersOf(p)) :
           HasKey(OrdersOf(p)[k], S_c) <=> OptsOf(p).orders[k].clientId # None
      /\ ~HoldsUndefined(inv[p].action)

\* An action with a builder, one order with a client id and one without.
C11_Witness ==
  \E p \in Procs :
    /\ HasAction(p)
    /\ HasKey(inv[p].action, S_builder)
    /\ \E k \in 1..Len(OrdersOf(p)) : HasKey(OrdersOf(p)[k], S_c)
    /\ \E k \in 1..Len(OrdersOf(p)) : ~HasKey(OrdersOf(p)[k], S_c)

\* C12: the keys of the action are type, orders, grouping, then builder when
\* present; the keys of each order are a, b, p, s, r, t, then c when present; the
\* k-th encoded order is that of the k-th intent; the hashed bytes begin with the
\* keys in that order.
C12_KeyOrderFixed ==
  \A p \in Procs :
    HasAction(p) =>
      /\ Keys(inv[p].action) =
           << S_type, S_orders, S_grouping >>
             \o (IF OptsOf(p).builder # None THEN << S_builder >> ELSE << >>)
      /\ Len(OrdersOf(p)) = Len(OptsOf(p).orders)
      /\ \A k \in 1..Len(OrdersOf(p)) :
           /\ Keys(OrdersOf(p)[k]) =
                << S_a, S_b, S_p, S_s, S_r, S_t >>
                  \o (IF OptsOf(p).orders[k].clientId # None THEN << S_c >> ELSE << >>)
           /\ Get(OrdersOf(p)[k], S_b) = JsBool(OptsOf(p).orders[k].side = "buy")
           /\ KnownSymbol(OptsOf(p).orders[k].symbol, inv[p].universe)
           /\ NamedLike(inv[p].universe, Get(OrdersOf(p)[k], S_a).i + 1,
                        trim(BaseOf(OptsOf(p).orders[k].symbol)))
      /\ LET bytes == inv[p].hash.keccak256
             head == << 128 + Len(Keys(inv[p].action)) >>
                       \o MsgpackString(S_type) \o MsgpackString(S_order)
                       \o MsgpackString(S_orders) \o << 144 + Len(OrdersOf(p)) >>
                       \o << 128 + Len(Keys(OrdersOf(p)[1])) >> \o MsgpackString(S_a)
         IN SubSeq(bytes, 1, Len(head)) = head

\* A batch of two orders for different assets, with a builder, was encoded.
C12_Witness ==
  \E p \in Procs :
    /\ HasAction(p)
    /\ Len(OrdersOf(p)) = 2
    /\ Get(OrdersOf(p)[1], S_a) # Get(OrdersOf(p)[2], S_a)
    /\ HasKey(inv[p].action, S_builder)
    /\ HasKey(OrdersOf(p)[2], S_c)

\* Whether invocation p has issued its POST to the exchange endpoint.
HasPosted(p) == inv[p].posts > 0

\* C13: the body of a POST holds the action, the nonce and the signature of the
\* run, the vault address exactly when one was supplied and the expiry exactly
\* when one was supplied; it is sent once, by POST, to the base URL followed by
\* /exchange, with a JSON content type; without a POST there is no body.
C13_BodyAndRequest ==
  \A p \in Procs :
    /\ ~HasPosted(p) => inv[p].body = None /\ inv[p].request = None
    /\ HasPosted(p) =>
         /\ inv[p].posts = 1
         /\ inv[p].body # None /\ inv[p].request # None
         /\ inv[p].body[1].action = inv[p].action
         /\ inv[p].body[1].nonce = inv[p].nonce
         /\ inv[p].body[1].nonce =
              (IF OptsOf(p).nonce # None THEN OptsOf(p).nonce[1] ELSE inv[p].body[1].nonce)
         /\ inv[p].body[1].signature = inv[p].signature
         /\ inv[p].signature.ok /\ inv[p].signature.v \in { 27, 28 }
         /\ inv[p].body[1].vaultAddress # None <=> OptsOf(p).vaultAddress # None
         /\ inv[p].body[1].expiresAfter = OptsOf(p).expiresAfter
         /\ inv[p].request[1].method = "POST"
         /\ inv[p].request[1].contentType = "application/json"
         /\ inv[p].request[1].url =
              (IF OptsOf(p).baseUrl # None THEN OptsOf(p).baseUrl[1]
               ELSE IF OptsOf(p).environment = Some(S_testnet) THEN API_BASE_testnet
               ELSE API_BASE_mainnet) \o S_exchangePath

\* A request with a vault address and an expiry was posted to the test venue.
C13_Witness ==
  \E p \in Procs :
    /\ HasPosted(p)
    /\ inv[p].body[1].vaultAddress # None /\ inv[p].body[1].expiresAfter = Some(900000)
    /\ inv[p].request[1].url = API_BASE_testnet \o S_exchangePath

\* The bytes a hexadecimal text with 0x prefix denotes; << >> when it denotes none.
BytesOfHex(text) ==
  IF Len(text) < 2 \/ Len(text) % 2 # 0 \/ \E k \in 3..Len(text) : ~IsHexDigit(text[k])
  THEN << >>
  ELSE [k \in 1..((Len(text) - 2) \div 2) |-> HexVal(text[2 * k + 1]) * 16 + HexVal(text[2 * k + 2])]

\* C14: the vaultAddress of a posted body is a text of 20 bytes that denotes the
\* 20 bytes appended to the hashed bytes after the vault marker.
C14_BodyVaultIsHashedVault ==
  \A p \in Procs :
    (HasPosted(p) /\ OptsOf(p).vaultAddress # None) =>
      LET n == Len(encodeMsgpack(inv[p].action))
          hashed == SubSeq(inv[p].hash.keccak256, n + 10, n + 29)
          sent == inv[p].body[1].vaultAddress[1]
      IN /\ Len(sent) = 42
         /\ BytesOfHex(sent) = hashed

\* The first and the second 32-byte segment of a signature text.
SegmentR(signature) == SubSeq(signature, 3, 66)

SegmentS(signature) == SubSeq(signature, 67, 130)

\* Whether a text is a 65-byte signature: 0x and 130 hexadecimal digits.
IsSignature65(signature) ==
  /\ Len(signature) = 132
  /\ signature[1] = "0" /\ signature[2] = "x"
  /\ \A k \in 3..132 : IsHexDigit(signature[k])

\* C15: the r and the s that splitSignature returns for a 65-byte signature have
\* 64 hexadecimal digits each after 0x, those of the first and of the second
\* 32-byte segment of the signature.
C15_ScalarsAre32Bytes ==
  (call.fn = "splitSignature" /\ call.done /\ IsSignature65(call.arg)) =>
    /\ call.out.ok
    /\ Len(call.out.r) = 66 /\ Len(call.out.s) = 66
    /\ call.out.r = << "0", "x" >> \o toLowerCase(SegmentR(call.arg))
    /\ call.out.s = << "0", "x" >> \o toLowerCase(SegmentS(call.arg))

\* C16: splitSignature fails for every text that is no 65-byte signature.
C16_MalformedSignatureFails ==
  (call.fn = "splitSignature" /\ call.done /\ ~IsSignature65(call.arg)) => ~call.out.ok

\* C17: the source tag of the signed message is "a" when the POST goes to the
\* production venue and "b" when it goes to the test venue.
C17_SourceTagNamesVenue ==
  \A p \in Procs :
    HasPosted(p) =>
      /\ inv[p].request[1].url = API_BASE_mainnet \o S_exchangePath => inv[p].source = << "a" >>
      /\ inv[p].request[1].url = API_BASE_testnet \o S_exchangePath => inv[p].source = << "b" >>

\* C18: an exchange response that is not successful or has no parsable body ends
\* the run with the submit failure, whatever the status in the body; a parsed,
\* successful one whose status is not "ok" ends it with the status failure; the
\* messages of the two differ and in neither case does the run return.
C18_TransportThenStatus ==
  [][\A resp \in ExchangeResponses :
       PostResponse("p1", resp) =>
         LET transport == ~resp.ok \/ resp.json = None
             status == ~transport /\ resp.json[1].status # "ok"
             after == inv'["p1"]
         IN /\ transport =>
                 after.pc = "thrown" /\ after.err = "SubmitFailed"
                   /\ after.errMessage = Msg_SubmitFailed
            /\ status =>
                 after.pc = "thrown" /\ after.err = "ApiStatus"
                   /\ after.errMessage = Msg_ApiStatus
            /\ (transport \/ status) => after.pc # "returned"
            /\ Msg_SubmitFailed # Msg_ApiStatus]_vars

\* An unsuccessful response whose body has a status other than "ok" ended the run
\* with the submit failure.
C18_Witness ==
  \E p \in Procs :
    /\ inv[p].pc = "thrown" /\ inv[p].err = "SubmitFailed"
    /\ inv[p].result # None /\ inv[p].result[1].status = "err"
    /\ inv[p].errMessage = Msg_SubmitFailed

\* The error messages of a statuses sequence, in order, joined by ", ".
RECURSIVE ErrorText(_)
ErrorText(statuses) ==
  IF statuses = << >> THEN << >>
  ELSE IF statuses[1].kind # "error" THEN ErrorText(Tail(statuses))
  ELSE IF \E k \in 2..Len(statuses) : statuses[k].kind = "error"
    THEN statuses[1].error \o << ",", " " >> \o ErrorText(Tail(statuses))
  ELSE statuses[1].error

\* Whether a response is a parsed, successful one of status "ok" with an error
\* among its outcomes.
HasErrorOutcome(resp) ==
  /\ resp.ok /\ resp.json # None /\ resp.json[1].status = "ok"
  /\ resp.json[1].statuses # None
  /\ \E k \in 1..Len(resp.json[1].statuses[1]) : resp.json[1].statuses[1][k].kind = "error"

\* C19 as stated: a response of status "ok" with an error outcome ends the run
\* with one error whose message is the error messages in order joined by ", " and
\* whose response is the parsed body.
C19_MessageIsJoinedErrors ==
  [][\A resp \in ExchangeResponses :
       (PostResponse("p1", resp) /\ HasErrorOutcome(resp)) =>
         /\ inv'["p1"].pc = "thrown" /\ inv'["p1"].err = "OrderRejected"
         /\ inv'["p1"].errMessage = ErrorText(resp.json[1].statuses[1])
         /\ inv'["p1"].result = resp.json]_vars

\* C19 amended: the message is the joined error messages, or the fixed text
\* "Hyperliquid rejected the order." when the joined text is empty.
C19_MessageIsJoinedErrorsOrFixedText ==
  [][\A resp \in ExchangeResponses :
       (PostResponse("p1", resp) /\ HasErrorOutcome(resp)) =>
         /\ inv'["p1"].pc = "thrown" /\ inv'["p1"].err = "OrderRejected"
         /\ inv'["p1"].errMessage =
              (IF ErrorText(resp.json[1].statuses[1]) # << >>
               THEN ErrorText(resp.json[1].statuses[1])
               ELSE Msg_Rejected)
         /\ inv'["p1"].result = resp.json]_vars

\* A response with two errors around a filled outcome ended the run with both
\* messages joined.
C19_Witness ==
  \E p \in Procs :
    /\ inv[p].pc = "thrown" /\ inv[p].err = "OrderRejected"
    /\ Len(inv[p].result[1].statuses[1]) = 3
    /\ inv[p].errMessage = Msg_InsufficientMargin \o << ",", " " >> \o Msg_TooSmall

\* C20: a run that returned holds a response with one outcome for each submitted
\* order, none of them an error.
C20_OneOutcomePerOrder ==
  \A p \in Procs :
    inv[p].pc = "returned" =>
      /\ inv[p].result # None /\ inv[p].result[1].statuses # None
      /\ Len(inv[p].result[1].statuses[1]) = Len(OptsOf(p).orders)
      /\ \A k \in 1..Len(inv[p].result[1].statuses[1]) :
           inv[p].result[1].statuses[1][k].kind # "error"

\* C21: within one invocation the metadata fetch, the signing call and the POST
\* are each issued at most once, and an invocation that has failed issues nothing
\* more: it stays as it is until the caller has the error.
C21_NoRetry ==
  /\ [](\A p \in Procs :
          inv[p].infoFetches <= 1 /\ inv[p].signCalls <= 1 /\ inv[p].posts <= 1)
  /\ [][\A p \in Procs :
          inv[p].pc = "thrown" => (inv'[p] = inv[p] \/ inv'[p] = IdleInv)]_vars
  /\ [][\A p \in Procs :
          inv'[p].pc # "idle" =>
            /\ inv'[p].infoFetches >= inv[p].infoFetches
            /\ inv'[p].signCalls >= inv[p].signCalls
            /\ inv'[p].posts >= inv[p].posts]_vars

\* The signing call of a run that had fetched the metadata was rejected.
C21_Witness ==
  \E p \in Procs :
    /\ inv[p].pc = "thrown" /\ inv[p].err = "SignerThrew"
    /\ inv[p].infoFetches = 1 /\ inv[p].signCalls = 1 /\ inv[p].posts = 0

\* C22: the nonce of an invocation is the nonce option when given and the clock
\* reading of that invocation otherwise, whatever the nonces of the invocations
\* running beside it; two requests with one nonce can be in flight together.
C22_NonceFromClockAlone ==
  [][\A p \in Procs :
       (inv[p].pc = "haveUniverse" /\ inv'[p].pc = "awaitSign") =>
         inv'[p].nonce = (IF OptsOf(p).nonce # None THEN OptsOf(p).nonce[1] ELSE now)]_vars

\* Two invocations without a nonce option have both posted, with the same nonce.
C22_Witness ==
  /\ \A p \in Procs : HasPosted(p) /\ inv[p].pc = "awaitPost" /\ OptsOf(p).nonce = None
  /\ inv["p1"].body[1].nonce = inv["p2"].body[1].nonce
  /\ inv["p1"].body[1].action = inv["p2"].body[1].action

\* C24: the action and the nonce of a posted body are those whose bytes were
\* hashed, the builder block included; the body has a vaultAddress exactly when
\* the vault marker hashed is 1 and an expiresAfter exactly when an expiry marker
\* and the expiry bytes were hashed.
C24_BodyIsWhatWasSigned ==
  \A p \in Procs :
    HasPosted(p) =>
      LET body == inv[p].body[1]
          hashed == inv[p].hash.keccak256
          actionBytes == encodeMsgpack(body.action)
          n == Len(actionBytes)
          vaultLen == IF hashed[n + 9] = 1 THEN 20 ELSE 0
      IN /\ SubSeq(hashed, 1, n) = actionBytes
         /\ \A k \in 1..8 : hashed[n + k] = ByteOfWeight(body.nonce, 8 - k)
         /\ HasKey(body.action, S_builder) <=> OptsOf(p).builder # None
         /\ hashed[n + 9] \in { 0, 1 }
         /\ body.vaultAddress # None <=> hashed[n + 9] = 1
         /\ body.expiresAfter # None <=> Len(hashed) = n + 9 + vaultLen + 9
         /\ body.expiresAfter = None <=> Len(hashed) = n + 9 + vaultLen
         /\ body.expiresAfter # None =>
              \A k \in 1..8 :
                hashed[n + 9 + vaultLen + 1 + k] = ByteOfWeight(body.expiresAfter[1], 8 - k)

\* A body with builder block, vault address and expiry was posted.
C24_Witness ==
  \E p \in Procs :
    /\ HasPosted(p)
    /\ HasKey(inv[p].body[1].action, S_builder)
    /\ inv[p].body[1].vaultAddress # None /\ inv[p].body[1].expiresAfter # None

\* Whether a response of the info endpoint makes getUniverse throw.
FailedFetch(resp) == ~resp.ok \/ resp.json = None \/ resp.json[1].universe = None

\* C25: a failed metadata fetch ends the invocation with the metadata error and
\* without a universe, and leaves every cache entry as it was; the entry of its
\* key is then absent or five minutes old, so that the next resolution fetches.
C25_FailedFetchLeavesCache ==
  /\ [][\A resp \in MetaResponses :
          (MetaResponse("p1", resp) /\ FailedFetch(resp)) =>
            /\ metaCache' = metaCache
            /\ inv'["p1"].pc = "thrown" /\ inv'["p1"].err = "MetadataUnavailable"
            /\ inv'["p1"].universe = << >>]_vars
  /\ [](\A p \in Procs :
          inv[p].err = "MetadataUnavailable" =>
            \/ inv[p].key \notin DOMAIN metaCache
            \/ now - metaCache[inv[p].key].fetchedAt >= FiveMinutes)

\* A fetch failed while a stale entry of its key was cached.
C25_Witness ==
  \E p \in Procs :
    /\ inv[p].pc = "thrown" /\ inv[p].err = "MetadataUnavailable"
    /\ inv[p].key \in DOMAIN metaCache
    /\ metaCache[inv[p].key].universe # << >>

\* C26: every order of a batch carries the index its symbol has in the universe
\* the invocation obtained, also when the cache entry of its key has been
\* replaced by another universe since; the universe an invocation holds does not
\* change.
C26_OneUniversePerBatch ==
  /\ [](\A p \in Procs :
          HasAction(p) =>
            \A k \in 1..Len(OrdersOf(p)) :
              NamedLike(inv[p].universe, Get(OrdersOf(p)[k], S_a).i + 1,
                        trim(BaseOf(OptsOf(p).orders[k].symbol))))
  /\ [][\A p \in Procs :
          (HoldsUniverse(p) /\ inv'[p].pc # "idle") =>
            inv'[p].universe = inv[p].universe]_vars

\* A batch of two orders was encoded after the cache entry of its key had been
\* replaced by a universe with other positions.
C26_Witness ==
  \E p \in Procs :
    /\ HasAction(p) /\ Len(OrdersOf(p)) = 2
    /\ inv[p].key \in DOMAIN metaCache
    /\ metaCache[inv[p].key].universe # inv[p].universe

\* The number a decimal text denotes when it is parsed back: an optional "-",
\* digits, and optionally a "." and digits; NaN for any other text.
ParsedBack(s) ==
  LET neg == s # << >> /\ s[1] = "-"
      body == IF neg THEN Tail(s) ELSE s
      int == SplitHead(body, ".")
      tail == SplitTail(body, ".")
      frac == IF tail = None THEN << >> ELSE tail[1]
      all == int \o frac
      wellFormed == /\ all # << >>
                    /\ \A k \in 1..Len(all) : IsDigit(all[k])
                    /\ (tail # None => frac # << >>)
      NonZero == { k \in 1..Len(all) : all[k] # "0" }
      first == CHOOSE k \in NonZero : \A j \in NonZero : k <= j
      last == CHOOSE k \in NonZero : \A j \in NonZero : k >= j
  IN IF ~wellFormed THEN NaN
     ELSE IF NonZero = {} THEN Num(FALSE, << "0" >>, 0)
     ELSE Num(neg, SubSeq(all, first, last), Len(int) - (first - 1))

\* C23: for every finite number toApiDecimal returns a text without "e" or "E"
\* that denotes the number when parsed back, whether the rendering of the number
\* is plain or exponential, and whatever its sign.
C23_DecimalRoundTrip ==
  (call.fn = "toApiDecimal" /\ call.done /\ isFinite(call.arg)) =>
    /\ call.out.ok
    /\ IndexOfChar(call.out.s, "e") = 0 /\ IndexOfChar(call.out.s, "E") = 0
    /\ ParsedBack(call.out.s) = call.arg

\* The calls of one kind the handler run has issued, in order.
EffectsOf(kind) == SelectSeq(call.effects, LAMBDA e : e.kind = kind)

\* A text without a digit other than 0 denotes no size that can be closed.
HasNonZeroDigit(s) == \E k \in 1..Len(s) : IsDigit(s[k]) /\ s[k] # "0"

\* C27: the close-position handler places no order and answers 400 when the
\* size, requested or fetched, is missing, zero or not finite, a failed state
\* fetch included; otherwise it places exactly one reduce-only order, a sell of a
\* positive size and a buy of a negative one, of the absolute size; the audit
\* record is written only after the order call has returned.
C27_CloseOrderFollowsSize ==
  /\ [](call.fn = "closePosition" =>
          LET orders == EffectsOf("order")
              stores == EffectsOf("store")
              sized == call.effects # << >> /\ call.loc.sized
              size == call.loc.currentSize
          IN /\ Len(orders) <= 1 /\ Len(stores) <= 1
             /\ (call.effects # << >> /\ ~call.loc.sized) => orders = << >>
             /\ (sized /\ (size = None \/ ~isFinite(size[1]) \/ IsZero(size[1]))) =>
                  /\ orders = << >> /\ stores = << >>
                  /\ call.response = Some([status |-> 400, ok |-> FALSE])
             /\ (sized /\ size # None /\ isFinite(size[1]) /\ ~IsZero(size[1])) =>
                  /\ Len(orders) = 1 /\ Len(orders[1].orders) = 1
                  /\ orders[1].orders[1].reduceOnly
                  /\ orders[1].orders[1].side = (IF size[1].neg THEN "buy" ELSE "sell")
                  /\ parseFloat(orders[1].orders[1].size) = [size[1] EXCEPT !.neg = FALSE]
             /\ (sized /\ call.loc.requestedSize # None) =>
                  size = Some(parseFloat(StringOf(call.loc.requestedSize[1])))
             /\ (call.arg.size # None /\ call.arg.size[1].t = "string"
                   /\ ~HasNonZeroDigit(call.arg.size[1].s)) => orders = << >>
             /\ stores # << >> =>
                  /\ orders # << >> /\ call.loc.entry # None
                  /\ call.effects[Len(call.effects)].kind = "store"
                  /\ call.effects[Len(call.effects) - 1].kind = "order")
  /\ [][\A result \in StateResults :
          (CloseState(result) /\ (result.threw \/ result.value.data = None)) =>
            /\ call'.response = Some([status |-> 400, ok |-> FALSE])
            /\ call'.effects = call.effects]_vars

\* A short position of which the state holds the size was closed with a buy, and
\* the record was written.
C27_Witness ==
  /\ call.fn = "closePosition" /\ call.pc = "responded"
  /\ call.response = Some([status |-> 200, ok |-> TRUE])
  /\ call.loc.requestedSize = None
  /\ EffectsOf("order")[1].orders[1].side = "buy"
  /\ EffectsOf("store") # << >>

Crossed(sample) == sample.crossedUp \/ sample.crossedDown

\* C28: one run of the SMA handler places at most one order, a reduce-only sell
\* only with a long position and a signal that crossed down, a buy only without
\* a long position and with a signal that crossed up; the signal is the most
\* recent sample with a cross, and the most recent sample when none has one.
C28_SmaOrderFollowsSignal ==
  (call.fn = "sma" /\ call.pc # "start") =>
    LET orders == EffectsOf("order")
        samples == call.loc.samples
        signal == call.loc.signal
        hasLong == IsPositive(call.loc.currentSize)
    IN /\ Len(orders) <= 1
       /\ orders # << >> =>
            /\ Len(orders[1].orders) = 1
            /\ orders[1].orders[1].side \in { "buy", "sell" }
            /\ orders[1].orders[1].side = "sell" =>
                 orders[1].orders[1].reduceOnly /\ hasLong /\ signal.crossedDown
            /\ orders[1].orders[1].side = "buy" => ~hasLong /\ signal.crossedUp
       /\ samples # << >> =>
            /\ signal = samples[signal.offset + 1]
            /\ \A k \in 1..signal.offset : ~Crossed(samples[k])
            /\ ~Crossed(signal) =>
                 signal.offset = 0 /\ \A k \in 1..Len(samples) : ~Crossed(samples[k])

\* A buy was placed on a cross up that is not the most recent sample.
C28_Witness ==
  /\ call.fn = "sma" /\ call.pc = "responded"
  /\ EffectsOf("order") # << >>
  /\ EffectsOf("order")[1].orders[1].side = "buy"
  /\ call.loc.signal.offset > 0

\* C29: the audit record and the response of the delta-neutral handler report
\* the action order, with status submitted, exactly for the runs that placed a
\* perp order, and noop, with status info, for the others.
C29_ReportedActionIsWhatHappened ==
  call.fn = "deltaNeutral" =>
    LET ordered == EffectsOf("order") # << >>
        stores == EffectsOf("store")
    IN /\ \A k \in 1..Len(stores) :
            /\ stores[k].action = (IF ordered THEN "order" ELSE "noop")
            /\ stores[k].status = (IF ordered THEN "submitted" ELSE "info")
       /\ call.pc = "responded" =>
            call.response[1].action = (IF ordered THEN "order" ELSE "noop")

\* C30: the nonce of the withdraw request, the time of its action and the time
\* of the signed message are one value; nothing is signed or posted when the
\* amount is no positive finite number or the wallet lacks the account or the
\* wallet client.
C30_WithdrawOneTime ==
  call.fn = "withdrawFromHyperliquid" =>
    LET signs == EffectsOf("sign")
        posts == EffectsOf("post")
        amount == NumberOf(call.arg.amount)
    IN /\ Len(signs) <= 1 /\ Len(posts) <= 1
       /\ posts # << >> =>
            /\ signs # << >>
            /\ posts[1].payload.nonce = posts[1].payload.action.time
            /\ signs[1].message.time.t = "bigint" /\ ~signs[1].message.time.x.neg
            /\ signs[1].message.time.x.digits = NatToString(posts[1].payload.nonce)
       /\ (~isFinite(amount) \/ ~IsPositive(amount)
             \/ ~call.arg.wallet.account \/ ~call.arg.wallet.walletClient) =>
            call.effects = << >>
       /\ (~HasNonZeroDigit(call.arg.amount) \/ call.arg.amount[1] = "-") =>
            call.effects = << >>

\* A withdrawal of an amount written with blanks around it was posted.
C30_Witness ==
  /\ call.fn = "withdrawFromHyperliquid" /\ call.pc = "returned"
  /\ call.arg.amount = << " ", "1", "0", " " >>
  /\ EffectsOf("post") # << >>
  /\ EffectsOf("post")[1].payload.nonce = now

====
